---- MODULE Spec2Model ----
(***************************************************************************)
(* Model of app.py: the webinar attendee counter.                          *)
(*                                                                         *)
(* Text that the program inspects character by character (time points,    *)
(* column headers, e-mail cells, annotation labels) is a sequence of       *)
(* ASCII codes, so that strip, lower, title, strptime and sorted are       *)
(* computed as Python computes them.  Join/leave cells are the outcome of  *)
(* pandas.to_datetime: a number of seconds, or NaT.                        *)
(*                                                                         *)
(* Every push_log call of process_file is one step of the thread; a        *)
(* /save_settings request is two steps (timeline, then annotations); a     *)
(* /stream caller takes one step per q.get.  Spec is the application with  *)
(* uploads and settings requests running concurrently, SpecCounter the     *)
(* counter under settings saved before the upload, SpecStream one upload   *)
(* and one /stream caller under fair scheduling, SpecSettings and SpecRace *)
(* the /save_settings requests alone, SpecJobs two uploads under fair      *)
(* scheduling, SpecTwoJobs two uploads that both store a result,           *)
(* SpecSubscribers two /stream callers of one upload.                      *)
(***************************************************************************)
EXTENDS Integers, Sequences, FiniteSets, TLC

(***************************** text helpers ********************************)

\* str.strip() removes these from both ends: space, \t, \n, \v, \f, \r and
\* the separators \x1c, \x1d, \x1e, \x1f.
IsSpace(c) == c \in {32, 9, 10, 11, 12, 13, 28, 29, 30, 31}

IsDigit(c) == c \in 48..57

IsUpper(c) == c \in 65..90

IsLower(c) == c \in 97..122

RECURSIVE LStrip(_)
LStrip(s) == IF s # <<>> /\ IsSpace(Head(s)) THEN LStrip(Tail(s)) ELSE s

RECURSIVE RStrip(_)
RStrip(s) ==
    IF s # <<>> /\ IsSpace(s[Len(s)]) THEN RStrip(SubSeq(s, 1, Len(s) - 1)) ELSE s

\* str.strip()
Strip(s) == RStrip(LStrip(s))

\* str.lower()
Lower(s) == [i \in 1..Len(s) |-> IF IsUpper(s[i]) THEN s[i] + 32 ELSE s[i]]

\* str.title(): a letter is upper-cased when the character before it is not a
\* letter, lower-cased otherwise.
Title(s) ==
    [i \in 1..Len(s) |->
        LET prevCased == i > 1 /\ (IsUpper(s[i - 1]) \/ IsLower(s[i - 1]))
        IN  IF prevCased
            THEN (IF IsUpper(s[i]) THEN s[i] + 32 ELSE s[i])
            ELSE (IF IsLower(s[i]) THEN s[i] - 32 ELSE s[i])]

\* Python's ordering of str: by code point, a proper prefix first.
RECURSIVE LexLess(_, _)
LexLess(a, b) ==
    IF b = <<>> THEN FALSE
    ELSE IF a = <<>> THEN TRUE
    ELSE IF Head(a) # Head(b) THEN Head(a) < Head(b)
    ELSE LexLess(Tail(a), Tail(b))

\* list(dict.fromkeys(xs)): the first occurrence of every value, in order.
RECURSIVE DictFromKeys(_)
DictFromKeys(xs) ==
    IF xs = <<>> THEN <<>>
    ELSE LET rest == DictFromKeys(SubSeq(xs, 1, Len(xs) - 1))
             x    == xs[Len(xs)]
         IN  IF \E i \in 1..Len(rest) : rest[i] = x THEN rest ELSE Append(rest, x)

RECURSIVE InsertSorted(_, _)
InsertSorted(x, xs) ==
    IF xs = <<>> THEN <<x>>
    ELSE IF LexLess(x, Head(xs)) THEN <<x>> \o xs
    ELSE <<Head(xs)>> \o InsertSorted(x, Tail(xs))

\* sorted(xs) on a list of str
RECURSIVE Sorted(_)
Sorted(xs) == IF xs = <<>> THEN <<>> ELSE InsertSorted(Head(xs), Sorted(Tail(xs)))

\* The digits of s as a number.
RECURSIVE DigitsValue(_)
DigitsValue(s) ==
    IF s = <<>> THEN 0
    ELSE 10 * DigitsValue(SubSeq(s, 1, Len(s) - 1)) + (s[Len(s)] - 48)

AllDigits(s) == \A i \in 1..Len(s) : IsDigit(s[i])

\* datetime.strptime(s, "%H:%M"): one or two digits of hour (0..23), a colon,
\* one or two digits of minute (0..59), nothing else.  <<h, m>>, or <<>> where
\* strptime raises ValueError.
Strptime(s) ==
    LET colons == {i \in 1..Len(s) : s[i] = 58}
    IN  IF Cardinality(colons) # 1 THEN <<>>
        ELSE LET c  == CHOOSE i \in colons : TRUE
                 hs == SubSeq(s, 1, c - 1)
                 ms == SubSeq(s, c + 1, Len(s))
             IN  IF /\ Len(hs) \in 1..2 /\ AllDigits(hs) /\ DigitsValue(hs) <= 23
                    /\ Len(ms) \in 1..2 /\ AllDigits(ms) /\ DigitsValue(ms) <= 59
                 THEN <<DigitsValue(hs), DigitsValue(ms)>>
                 ELSE <<>>


\* str(n) for n >= 0
RECURSIVE IntToStr(_)
IntToStr(n) == IF n < 10 THEN <<48 + n>> ELSE Append(IntToStr(n \div 10), 48 + (n % 10))

\* The zero-padded literal "HH:MM".
HHMM(h, m) == <<48 + (h \div 10), 48 + (h % 10), 58, 48 + (m \div 10), 48 + (m % 10)>>

(******************************* CONFIG ************************************)

DEFAULT_TIMELINE ==
    << HHMM(9, 0), HHMM(9, 15), HHMM(9, 30), HHMM(9, 45),
       HHMM(10, 0), HHMM(10, 15), HHMM(10, 30), HHMM(10, 45),
       HHMM(11, 2), HHMM(11, 12), HHMM(11, 15), HHMM(11, 30), HHMM(11, 45),
       HHMM(12, 0), HHMM(12, 15), HHMM(12, 21), HHMM(12, 33), HHMM(12, 35),
       HHMM(12, 50), HHMM(12, 51) >>

DEFAULT_ANNOTATIONS ==
    (HHMM(11, 2)  :> <<66, 114, 101, 97, 107, 32, 115, 116, 97, 114, 116, 115>>) @@
    (HHMM(11, 12) :> <<66, 114, 101, 97, 107, 32, 101, 110, 100, 115>>) @@
    (HHMM(12, 21) :> <<80, 65, 67, 69, 32, 73, 110, 116, 114, 111>>) @@
    (HHMM(12, 33) :> <<80, 65, 67, 69, 32, 105, 110, 118, 101, 115, 116, 109, 101, 110, 116>>) @@
    (HHMM(12, 35) :> <<80, 105, 116, 99, 104, 32, 115, 116, 97, 114, 116, 115>>) @@
    (HHMM(12, 50) :> <<80, 105, 116, 99, 104, 32, 101, 110, 100, 115>>) @@
    (HHMM(12, 51) :> <<87, 111, 114, 107, 115, 104, 111, 112, 32, 101, 110, 100, 115>>)

\* Column names the worker looks for, after normalize_columns.
COL_JOIN == <<74, 111, 105, 110, 32, 84, 105, 109, 101>>

COL_LEAVE == <<76, 101, 97, 118, 101, 32, 84, 105, 109, 101>>

COL_EMAIL == <<69, 109, 97, 105, 108>>

\* 'Event_Date', the column line 131 assigns.
COL_EVENT_DATE == <<69, 118, 101, 110, 116, 95, 68, 97, 116, 101>>

\* ['Name', 'Name (Original Name)', 'Full Name']
FALLBACK_COLS ==
    << <<78, 97, 109, 101>>,
       <<78, 97, 109, 101, 32, 40, 79, 114, 105, 103, 105, 110, 97, 108, 32, 78, 97, 109, 101, 41>>,
       <<70, 117, 108, 108, 32, 78, 97, 109, 101>> >>

(************************** time and table values **************************)

\* pandas' NaT: what to_datetime(errors='coerce') gives for an unparsable cell.
NaT == 0 - 1

SecondsPerDay == 24 * 3600

\* A timestamp: seconds since midnight of day 0.
At(day, h, m, sec) == day * SecondsPerDay + h * 3600 + m * 60 + sec

\* Timestamp.date()
DateOf(ts) == ts \div SecondsPerDay

\* A cell of the table: ts is what pd.to_datetime makes of it, str what
\* astype(str) makes of it ("nan" for an empty cell).
TimeCell(ts) == [ts |-> ts, str |-> <<>>]

TextCell(s) == [ts |-> NaT, str |-> s]

NanCell == [ts |-> NaT, str |-> <<110, 97, 110>>]

(************************ save_settings: validation *************************)

\* The list `good` of save_settings: every candidate, stripped, that
\* strptime("%H:%M") accepts, in the order given.
RECURSIVE GoodTimes(_)
GoodTimes(tl) ==
    IF tl = <<>> THEN <<>>
    ELSE LET t == Strip(Head(tl))
         IN  IF Strptime(t) # <<>> THEN <<t>> \o GoodTimes(Tail(tl)) ELSE GoodTimes(Tail(tl))

\* sorted(list(dict.fromkeys(good)))
NewTimeline(tl) == Sorted(DictFromKeys(GoodTimes(tl)))

\* The dict good_ann of save_settings, filled in the order of anns.items().
\* An item is [k, v, isStr]: v is the text of a str value (isStr), else the
\* item stands for a value that is no str (a number, null, a list).
RECURSIVE GoodAnn(_)
GoodAnn(items) ==
    IF items = <<>> THEN <<>>
    ELSE LET before == GoodAnn(SubSeq(items, 1, Len(items) - 1))
             it     == items[Len(items)]
             k2     == Strip(it.k)
         IN  IF Strptime(k2) # <<>> /\ it.isStr /\ it.v # <<>>
             THEN (k2 :> Strip(it.v)) @@ before
             ELSE before

(************************ process_file: computations ************************)

\* normalize_columns: df.columns.str.strip().str.title()
normalize_columns(cols) == [i \in 1..Len(cols) |-> Title(Strip(cols[i]))]

\* The positions of a column name among the normalized columns.
ColumnsNamed(cols, name) == {i \in 1..Len(cols) : cols[i] = name}

HasColumn(cols, name) == ColumnsNamed(cols, name) # {}

\* df[name] is a Series only if one column has that name; with two it is a
\* DataFrame, on which to_datetime and .str raise.
ColumnOf(cols, name) == CHOOSE i \in ColumnsNamed(cols, name) : TRUE

\* ParsedRows with dropna(subset=['Join Time']): a row whose Leave Time is NaT
\* is kept.
RECURSIVE ParsedRows_JoinOnly(_, _, _, _)
ParsedRows_JoinOnly(rows, n, jc, lc) ==
    IF n = 0 THEN <<>>
    ELSE LET before == ParsedRows_JoinOnly(rows, n - 1, jc, lc)
             r      == rows[n]
         IN  IF r[jc].ts # NaT
             THEN Append(before, [idx |-> n - 1, join |-> r[jc].ts, leave |-> r[lc].ts,
                                  cells |-> r, clean_email |-> <<>>])
             ELSE before

\* Lines 106-110: both columns parsed, rows with a NaT in either dropped.  Each
\* surviving row keeps its index label (its 0-based position in the file).
RECURSIVE ParsedRows(_, _, _, _)
ParsedRows(rows, n, jc, lc) ==
    IF n = 0 THEN <<>>
    ELSE LET before == ParsedRows(rows, n - 1, jc, lc)
             r      == rows[n]
         IN  IF r[jc].ts # NaT /\ r[lc].ts # NaT
             THEN Append(before, [idx |-> n - 1, join |-> r[jc].ts, leave |-> r[lc].ts,
                                  cells |-> r, clean_email |-> <<>>])
             ELSE before

\* FallbackColumn that takes the fallback column that comes first in the file
\* instead of the first of the list ['Name', 'Name (Original Name)', 'Full Name'].
FallbackColumn_FileOrder(cols) ==
    LET present == {k \in 1..Len(FALLBACK_COLS) : HasColumn(cols, FALLBACK_COLS[k])}
    IN  IF present = {} THEN 0
        ELSE CHOOSE k \in present :
                \A k2 \in present :
                    ColumnOf(cols, FALLBACK_COLS[k]) <= ColumnOf(cols, FALLBACK_COLS[k2])

\* Lines 118-122: the first of the fallback columns that exists, 0 if none.
FallbackColumn(cols) ==
    LET present == {k \in 1..Len(FALLBACK_COLS) : HasColumn(cols, FALLBACK_COLS[k])}
    IN  IF present = {} THEN 0
        ELSE CHOOSE k \in present : \A k2 \in present : k <= k2

\* CleanEmail that takes the key of a row with an empty Email cell from the
\* name column, when there is one.
CleanEmail_NameForEmpty(cols, r) ==
    IF /\ HasColumn(cols, COL_EMAIL)
       /\ ~(r.cells[ColumnOf(cols, COL_EMAIL)] = NanCell /\ FallbackColumn(cols) # 0)
    THEN Strip(Lower(r.cells[ColumnOf(cols, COL_EMAIL)].str))
    ELSE IF FallbackColumn(cols) # 0
    THEN Strip(Lower(r.cells[ColumnOf(cols, FALLBACK_COLS[FallbackColumn(cols)])].str))
    ELSE IntToStr(r.idx)

\* Lines 114-128: the value of clean_email for one row.
CleanEmail(cols, r) ==
    IF HasColumn(cols, COL_EMAIL)
    THEN Strip(Lower(r.cells[ColumnOf(cols, COL_EMAIL)].str))
    ELSE IF FallbackColumn(cols) # 0
    THEN Strip(Lower(r.cells[ColumnOf(cols, FALLBACK_COLS[FallbackColumn(cols)])].str))
    ELSE IntToStr(r.idx)

\* The column the key is read from; <<>> for the row index.
KeyColumnName(cols) ==
    IF HasColumn(cols, COL_EMAIL) THEN COL_EMAIL
    ELSE IF FallbackColumn(cols) # 0 THEN FALLBACK_COLS[FallbackColumn(cols)]
    ELSE <<>>

\* Ascending sequence of a finite set of integers.
RECURSIVE SortedInts(_)
SortedInts(S) ==
    IF S = {} THEN <<>>
    ELSE LET m == CHOOSE x \in S : \A y \in S : x <= y
         IN  <<m>> \o SortedInts(S \ {m})

\* Line 131-132: sorted(df['Event_Date'].unique())
UniqueDates(df) == SortedInts({DateOf(df[k].join) : k \in 1..Len(df)})

\* CheckDt without the first-minute rule: every point is checked at base_dt.
CheckDt_NoOffset(timeline, time_str, report_date) ==
    LET t_val == Strptime(time_str)
    IN  At(report_date, t_val[1], t_val[2], 0)

\* Lines 153-160: the instant checked for time_str on report_date.
CheckDt(timeline, time_str, report_date) ==
    LET t_val   == Strptime(time_str)
        base_dt == At(report_date, t_val[1], t_val[2], 0)
    IN  IF time_str = timeline[1] THEN base_dt + 59 ELSE base_dt

\* ActiveRows with the leave time excluded (> in place of >=).
ActiveRows_Exclusive(df, report_date, check_dt) ==
    {k \in 1..Len(df) : /\ DateOf(df[k].join) = report_date
                        /\ df[k].join <= check_dt
                        /\ df[k].leave > check_dt}

\* Line 149 and 162: the rows of the day that are active at check_dt.
ActiveRows(df, report_date, check_dt) ==
    {k \in 1..Len(df) : /\ DateOf(df[k].join) = report_date
                        /\ df[k].join <= check_dt
                        /\ df[k].leave >= check_dt}

\* CountActive as len(active_rows): sessions counted, not identities.
CountActive_Rows(df, report_date, check_dt) ==
    Cardinality(ActiveRows(df, report_date, check_dt))

\* Line 163: active_rows['clean_email'].nunique()
CountActive(df, report_date, check_dt) ==
    Cardinality({df[k].clean_email : k \in ActiveRows(df, report_date, check_dt)})

\* CountText that counts the label as one more attendee.
CountText_LabelCounts(annotations, time_str, count) ==
    IF time_str \in DOMAIN annotations
    THEN IntToStr(count + 1) \o <<32, 40>> \o annotations[time_str] \o <<41>>
    ELSE IntToStr(count)

\* Lines 164-167: the text shown for a count.
CountText(annotations, time_str, count) ==
    IF time_str \in DOMAIN annotations
    THEN IntToStr(count) \o <<32, 40>> \o annotations[time_str] \o <<41>>
    ELSE IntToStr(count)

(******************************* log lines *********************************)

\* A line on a task's queue.  The sentinels are the bare strings "DONE" and
\* "FAILED"; every other line starts with a clock time and carries a text.
Line(tag, arg) == [kind |-> "log", tag |-> tag, arg |-> arg]

DONE == [kind |-> "DONE", tag |-> "", arg |-> <<>>]

FAILED == [kind |-> "FAILED", tag |-> "", arg |-> <<>>]

\* msg in ("DONE", "FAILED")
IsSentinel(msg) == msg.kind \in {"DONE", "FAILED"}

(********************************* state ***********************************)

VARIABLES
    CURRENT_SETTINGS,   \* [timeline, annotations]: the global settings
    TASK_QUEUES,        \* task id -> the lines waiting on the task's Queue
    TASK_RESULTS,       \* task id -> the stored result
    thread,             \* task id -> the locals and position of its process_file thread
    sent,               \* task id -> every line push_log has put on its queue, in order
    OUTPUT_FOLDER,      \* file name -> the CSV under that name, and whether it is whole
    settings_at_submit, \* task id -> CURRENT_SETTINGS when /upload started its thread
    stream,             \* subscriber -> position and task of its /stream generator
    request             \* writer -> position and payload of its /save_settings request

vars == <<CURRENT_SETTINGS, TASK_QUEUES, TASK_RESULTS, thread, sent, OUTPUT_FOLDER,
          settings_at_submit, stream, request>>

\* How many files are uploaded, and how many /save_settings requests can be in
\* progress at once while files are processed.
MaxTasks == 1

MaxWriters == 1

\* How many /save_settings requests can be in progress at once when only
\* settings are saved.
MaxRequests == 2

\* Task ids (standing for uuid4 values), /stream callers and /save_settings callers.
Tasks == 1..MaxTasks

Subscribers == {"s1", "s2"}

Writers == 1..MaxWriters

\* The /save_settings callers of the server: the request handlers that can run
\* at once (one thread per request).
Requests == 1..MaxRequests

NoPayload == [tlIsList |-> FALSE, tl |-> <<>>, annsIsDict |-> FALSE, anns |-> <<>>]

Init ==
    /\ CURRENT_SETTINGS = [timeline |-> DEFAULT_TIMELINE, annotations |-> DEFAULT_ANNOTATIONS]
    /\ TASK_QUEUES = <<>>
    /\ TASK_RESULTS = <<>>
    /\ thread = <<>>
    /\ sent = <<>>
    /\ OUTPUT_FOLDER = <<>>
    /\ settings_at_submit = <<>>
    /\ stream = [s \in Subscribers |-> [pc |-> "idle", task |-> 0, got |-> <<>>]]
    /\ request = [w \in Writers \cup Requests |-> [pc |-> "idle", payload |-> NoPayload]]

\* push_log: the line is put on the task's queue if the task has one.
push_log(queues, task_id, message) ==
    IF task_id \in DOMAIN queues
    THEN [queues EXCEPT ![task_id] = Append(@, message)]
    ELSE queues

\* Log with a Queue(maxsize=1): put waits while a line is on the queue.
Log_Blocking(task_id, message) ==
    /\ task_id \in DOMAIN TASK_QUEUES => TASK_QUEUES[task_id] = <<>>
    /\ TASK_QUEUES' = push_log(TASK_QUEUES, task_id, message)
    /\ sent' = push_log(sent, task_id, message)

\* The effect of one push_log call of a thread on the state.
Log(task_id, message) ==
    /\ TASK_QUEUES' = push_log(TASK_QUEUES, task_id, message)
    /\ sent' = push_log(sent, task_id, message)

(***************************** /upload *************************************)

\* Lines 710-715: a fresh task id, its Queue registered, the Thread made.
UploadRegister(j, table) ==
    /\ j \notin DOMAIN TASK_QUEUES
    /\ j \notin DOMAIN thread
    /\ TASK_QUEUES' = (j :> <<>>) @@ TASK_QUEUES
    /\ sent' = (j :> <<>>) @@ sent
    /\ thread' = (j :> [pc |-> "new", table |-> table, columns |-> <<>>, df |-> <<>>,
                        unique_dates |-> <<>>, timeline |-> <<>>, annotations |-> <<>>,
                        final_data |-> [Time |-> <<>>, Count |-> <<>>],
                        date_to_counts |-> <<>>, d |-> 0, i |-> 0, counts |-> <<>>,
                        count |-> 0, check_dt |-> 0, out_filename |-> 0]) @@ thread
    /\ UNCHANGED <<CURRENT_SETTINGS, TASK_RESULTS, stream, request, OUTPUT_FOLDER, settings_at_submit>>

\* Line 716: thread.start()
UploadStart(j) ==
    /\ j \in DOMAIN thread
    /\ thread[j].pc = "new"
    /\ thread' = [thread EXCEPT ![j].pc = "start"]
    /\ settings_at_submit' = (j :> CURRENT_SETTINGS) @@ settings_at_submit
    /\ UNCHANGED <<CURRENT_SETTINGS, TASK_QUEUES, TASK_RESULTS, sent, stream, request, OUTPUT_FOLDER>>

(*************************** process_file **********************************)

At_(j, pc) == j \in DOMAIN thread /\ thread[j].pc = pc

\* Line 84
ProcStart(j) ==
    /\ At_(j, "start")
    /\ Log(j, Line("Processing", <<>>))
    /\ thread' = [thread EXCEPT ![j].pc = "load"]
    /\ UNCHANGED <<CURRENT_SETTINGS, TASK_RESULTS, stream, request, OUTPUT_FOLDER, settings_at_submit>>

\* Lines 86-90: read_input_file succeeds or raises.
ProcLoad(j) ==
    /\ At_(j, "load")
    /\ IF thread[j].table.readable
       THEN /\ Log(j, Line("FileLoaded", <<>>))
            /\ thread' = [thread EXCEPT ![j].pc = "normalize",
                                        ![j].columns = thread[j].table.columns]
       ELSE /\ Log(j, Line("ErrorReading", <<>>))
            /\ thread' = [thread EXCEPT ![j].pc = "failed_read"]
    /\ UNCHANGED <<CURRENT_SETTINGS, TASK_RESULTS, stream, request, OUTPUT_FOLDER, settings_at_submit>>

\* Lines 95-96
ProcNormalize(j) ==
    /\ At_(j, "normalize")
    /\ Log(j, Line("ColumnsNormalized", <<>>))
    /\ thread' = [thread EXCEPT ![j].pc = "check_columns",
                                ![j].columns = normalize_columns(thread[j].columns)]
    /\ UNCHANGED <<CURRENT_SETTINGS, TASK_RESULTS, stream, request, OUTPUT_FOLDER, settings_at_submit>>

\* ProcCheckColumns that looks for the two columns among the headers as they
\* are in the file, not as normalize_columns left them.
ProcCheckColumns_Raw(j) ==
    /\ At_(j, "check_columns")
    /\ IF \/ ~HasColumn(thread[j].table.columns, COL_JOIN)
          \/ ~HasColumn(thread[j].table.columns, COL_LEAVE)
       THEN /\ Log(j, Line("MissingColumns", <<>>))
            /\ thread' = [thread EXCEPT ![j].pc = "failed_columns"]
       ELSE /\ Log(j, Line("Parsing", <<>>))
            /\ thread' = [thread EXCEPT ![j].pc = "parse"]
    /\ UNCHANGED <<CURRENT_SETTINGS, TASK_RESULTS, stream, request, OUTPUT_FOLDER,
                   settings_at_submit>>

\* Lines 99-105
ProcCheckColumns(j) ==
    /\ At_(j, "check_columns")
    /\ IF ~HasColumn(thread[j].columns, COL_JOIN) \/ ~HasColumn(thread[j].columns, COL_LEAVE)
       THEN /\ Log(j, Line("MissingColumns", <<>>))
            /\ thread' = [thread EXCEPT ![j].pc = "failed_columns"]
       ELSE /\ Log(j, Line("Parsing", <<>>))
            /\ thread' = [thread EXCEPT ![j].pc = "parse"]
    /\ UNCHANGED <<CURRENT_SETTINGS, TASK_RESULTS, stream, request, OUTPUT_FOLDER, settings_at_submit>>

\* Lines 106-111.  With two columns of the same name df[name] is a DataFrame
\* and to_datetime raises, which line 194 catches.
ProcParse(j) ==
    /\ At_(j, "parse")
    /\ LET cols == thread[j].columns
           rows == thread[j].table.rows
       IN  IF \/ Cardinality(ColumnsNamed(cols, COL_JOIN)) > 1
              \/ Cardinality(ColumnsNamed(cols, COL_LEAVE)) > 1
           THEN /\ thread' = [thread EXCEPT ![j].pc = "except"]
                /\ UNCHANGED <<TASK_QUEUES, sent>>
           ELSE LET df == ParsedRows(rows, Len(rows), ColumnOf(cols, COL_JOIN),
                                     ColumnOf(cols, COL_LEAVE))
                IN  /\ Log(j, Line("Dropped", <<IntToStr(Len(rows) - Len(df))>>))
                    /\ thread' = [thread EXCEPT ![j].pc = "dedupe", ![j].df = df]
    /\ UNCHANGED <<CURRENT_SETTINGS, TASK_RESULTS, stream, request, OUTPUT_FOLDER, settings_at_submit>>

\* Lines 114-128
ProcDedupe(j) ==
    /\ At_(j, "dedupe")
    /\ LET cols == thread[j].columns
           df   == thread[j].df
           key  == KeyColumnName(cols)
       IN  IF key # <<>> /\ Cardinality(ColumnsNamed(cols, key)) > 1
           THEN /\ thread' = [thread EXCEPT ![j].pc = "except"]
                /\ UNCHANGED <<TASK_QUEUES, sent>>
           ELSE /\ thread' = [thread EXCEPT
                       ![j].pc = "dates",
                       ![j].df = [k \in 1..Len(df) |->
                                    [df[k] EXCEPT !.clean_email = CleanEmail(cols, df[k])]]]
                /\ Log(j, Line(IF key = COL_EMAIL THEN "UsingEmail"
                               ELSE IF key # <<>> THEN "UsingFallback" ELSE "UsingIndex",
                               <<key>>))
    /\ UNCHANGED <<CURRENT_SETTINGS, TASK_RESULTS, stream, request, OUTPUT_FOLDER, settings_at_submit>>

\* Lines 131-133.  When the file has two columns named Event_Date, line 131
\* assigns both, df['Event_Date'] is a DataFrame and .unique() raises, which
\* line 194 catches.
ProcDates(j) ==
    /\ At_(j, "dates")
    /\ IF Cardinality(ColumnsNamed(thread[j].columns, COL_EVENT_DATE)) > 1
       THEN /\ thread' = [thread EXCEPT ![j].pc = "except"]
            /\ UNCHANGED <<TASK_QUEUES, sent>>
       ELSE LET unique_dates == UniqueDates(thread[j].df)
            IN  /\ Log(j, Line("DatesFound", [k \in 1..Len(unique_dates) |-> IntToStr(unique_dates[k])]))
                /\ thread' = [thread EXCEPT ![j].pc = "check_dates", ![j].unique_dates = unique_dates]
    /\ UNCHANGED <<CURRENT_SETTINGS, TASK_RESULTS, stream, request, OUTPUT_FOLDER, settings_at_submit>>

\* ProcNoDates with lines 141-142 run before the test of line 135: the
\* settings are read by a job that has no date.
ProcNoDates_ReadsFirst(j) ==
    /\ At_(j, "check_dates")
    /\ thread[j].unique_dates = <<>>
    /\ Log(j, Line("NoValidDates", <<>>))
    /\ thread' = [thread EXCEPT ![j].pc = "failed_dates",
                                ![j].timeline = CURRENT_SETTINGS.timeline,
                                ![j].annotations = CURRENT_SETTINGS.annotations]
    /\ UNCHANGED <<CURRENT_SETTINGS, TASK_RESULTS, stream, request, OUTPUT_FOLDER,
                   settings_at_submit>>

\* Lines 135-136
ProcNoDates(j) ==
    /\ At_(j, "check_dates")
    /\ thread[j].unique_dates = <<>>
    /\ Log(j, Line("NoValidDates", <<>>))
    /\ thread' = [thread EXCEPT ![j].pc = "failed_dates"]
    /\ UNCHANGED <<CURRENT_SETTINGS, TASK_RESULTS, stream, request, OUTPUT_FOLDER, settings_at_submit>>

\* Line 141: timeline = list(CURRENT_SETTINGS.get("timeline", ...))
ProcReadTimeline(j) ==
    /\ At_(j, "check_dates")
    /\ thread[j].unique_dates # <<>>
    /\ thread' = [thread EXCEPT ![j].pc = "read_annotations",
                                ![j].timeline = CURRENT_SETTINGS.timeline]
    /\ UNCHANGED <<CURRENT_SETTINGS, TASK_QUEUES, TASK_RESULTS, sent, stream, request, OUTPUT_FOLDER, settings_at_submit>>

\* ProcReadAnnotations that also registers an empty result for the task.
ProcReadAnnotations_Register(j) ==
    /\ At_(j, "read_annotations")
    /\ thread' = [thread EXCEPT ![j].pc = "next_date",
                                ![j].annotations = CURRENT_SETTINGS.annotations,
                                ![j].final_data = [Time |-> thread[j].timeline, Count |-> <<>>],
                                ![j].date_to_counts = <<>>,
                                ![j].d = 0]
    /\ TASK_RESULTS' = (j :> [csv |-> 0, rows |-> <<>>, dates |-> thread[j].unique_dates,
                              all_counts |-> <<>>]) @@ TASK_RESULTS
    /\ UNCHANGED <<CURRENT_SETTINGS, TASK_QUEUES, sent, stream, request, OUTPUT_FOLDER,
                   settings_at_submit>>

\* Lines 142-145
ProcReadAnnotations(j) ==
    /\ At_(j, "read_annotations")
    /\ thread' = [thread EXCEPT ![j].pc = "next_date",
                                ![j].annotations = CURRENT_SETTINGS.annotations,
                                ![j].final_data = [Time |-> thread[j].timeline, Count |-> <<>>],
                                ![j].date_to_counts = <<>>,
                                ![j].d = 0]
    /\ UNCHANGED <<CURRENT_SETTINGS, TASK_QUEUES, TASK_RESULTS, sent, stream, request, OUTPUT_FOLDER, settings_at_submit>>

\* Lines 147-150: the next report_date of the outer loop.
ProcAnalyze(j) ==
    /\ At_(j, "next_date")
    /\ thread[j].d < Len(thread[j].unique_dates)
    /\ Log(j, Line("Analyzing", <<IntToStr(thread[j].unique_dates[thread[j].d + 1])>>))
    /\ thread' = [thread EXCEPT ![j].pc = "count", ![j].d = @ + 1,
                                ![j].i = 0, ![j].counts = <<>>]
    /\ UNCHANGED <<CURRENT_SETTINGS, TASK_RESULTS, stream, request, OUTPUT_FOLDER, settings_at_submit>>

\* ProcCount with counts.insert(0, text) in place of counts.append(text).
ProcCount_Prepend(j) ==
    /\ At_(j, "count")
    /\ thread[j].i < Len(thread[j].timeline)
    /\ LET timeline    == thread[j].timeline
           time_str    == timeline[thread[j].i + 1]
           report_date == thread[j].unique_dates[thread[j].d]
           check_dt    == CheckDt(timeline, time_str, report_date)
           count       == CountActive(thread[j].df, report_date, check_dt)
           text        == CountText(thread[j].annotations, time_str, count)
       IN  /\ thread' = [thread EXCEPT ![j].i = @ + 1,
                                       ![j].check_dt = check_dt,
                                       ![j].count = count,
                                       ![j].counts = <<text>> \o @]
           /\ Log(j, Line("Count", <<time_str, text>>))
    /\ UNCHANGED <<CURRENT_SETTINGS, TASK_RESULTS, stream, request, OUTPUT_FOLDER,
                   settings_at_submit>>

\* Lines 151-169: one iteration of the inner loop.
ProcCount(j) ==
    /\ At_(j, "count")
    /\ thread[j].i < Len(thread[j].timeline)
    /\ LET timeline    == thread[j].timeline
           time_str    == timeline[thread[j].i + 1]
           report_date == thread[j].unique_dates[thread[j].d]
           check_dt    == CheckDt(timeline, time_str, report_date)
           count       == CountActive(thread[j].df, report_date, check_dt)
           text        == CountText(thread[j].annotations, time_str, count)
       IN  /\ thread' = [thread EXCEPT ![j].i = @ + 1,
                                       ![j].check_dt = check_dt,
                                       ![j].count = count,
                                       ![j].counts = Append(@, text)]
           /\ Log(j, Line("Count", <<time_str, text>>))
    /\ UNCHANGED <<CURRENT_SETTINGS, TASK_RESULTS, stream, request, OUTPUT_FOLDER, settings_at_submit>>

\* ProcEndDate that publishes the counts so far as the task's result.
ProcEndDate_Publish(j) ==
    /\ At_(j, "count")
    /\ thread[j].i = Len(thread[j].timeline)
    /\ LET report_date == thread[j].unique_dates[thread[j].d]
           so_far      == (report_date :> thread[j].counts) @@ thread[j].date_to_counts
       IN  /\ thread' = [thread EXCEPT
                   ![j].pc = "next_date",
                   ![j].final_data.Count = (report_date :> thread[j].counts) @@ @,
                   ![j].date_to_counts = so_far]
           /\ TASK_RESULTS' = (j :> [csv |-> 0, rows |-> <<>>,
                                     dates |-> thread[j].unique_dates,
                                     all_counts |-> so_far]) @@ TASK_RESULTS
    /\ UNCHANGED <<CURRENT_SETTINGS, TASK_QUEUES, sent, stream, request, OUTPUT_FOLDER,
                   settings_at_submit>>

\* Lines 170-171
ProcEndDate(j) ==
    /\ At_(j, "count")
    /\ thread[j].i = Len(thread[j].timeline)
    /\ LET report_date == thread[j].unique_dates[thread[j].d]
       IN  thread' = [thread EXCEPT
               ![j].pc = "next_date",
               ![j].final_data.Count = (report_date :> thread[j].counts) @@ @,
               ![j].date_to_counts = (report_date :> thread[j].counts) @@ @]
    /\ UNCHANGED <<CURRENT_SETTINGS, TASK_QUEUES, TASK_RESULTS, sent, stream, request, OUTPUT_FOLDER, settings_at_submit>>

\* Line 175: the names uuid.uuid4().hex[:8] can give.  The 8 digits are those
\* of a second uuid4, not of the task id, and nothing tests them: the name is
\* one already given to a report, or one never given (names only being
\* compared, the least number not in use stands for every such name).
out_filenames ==
    LET given == (DOMAIN OUTPUT_FOLDER
                  \cup {thread[k].out_filename : k \in DOMAIN thread}) \ {0}
    IN  given \cup {CHOOSE n \in 1..(Cardinality(given) + 1) :
                        n \notin given /\ \A m \in 1..(n - 1) : m \in given}

\* Lines 177-180: the table to_csv is given, and whether the file holds the
\* whole of its text or something else (a part of it, or a mix with what
\* another thread wrote under the same name).
csv_df(j, whole) ==
    [Time |-> thread[j].timeline,
     date |-> thread[j].unique_dates[1],
     Count |-> thread[j].final_data.Count[thread[j].unique_dates[1]],
     whole |-> whole]

\* Lines 174-181, up to the opening of out_path: the report gets its name and
\* to_csv opens the file for writing, which creates it or empties the file
\* that was there, or fails to open it and raises.
ProcSaveCsv(j) ==
    /\ At_(j, "next_date")
    /\ thread[j].d = Len(thread[j].unique_dates)
    /\ \E out_filename \in out_filenames :
          \/ /\ OUTPUT_FOLDER' = (out_filename :> csv_df(j, FALSE)) @@ OUTPUT_FOLDER
             /\ thread' = [thread EXCEPT ![j].pc = "writing",
                                         ![j].out_filename = out_filename]
          \/ /\ thread' = [thread EXCEPT ![j].pc = "except",
                                         ![j].out_filename = out_filename]
             /\ UNCHANGED OUTPUT_FOLDER
    /\ UNCHANGED <<CURRENT_SETTINGS, TASK_QUEUES, TASK_RESULTS, sent, stream, request, settings_at_submit>>

\* Line 181, after the opening: to_csv writes the text and closes the file, or
\* raises and leaves what it has written.  When no other thread has opened
\* the file since and none is writing it, the file then holds the whole table;
\* otherwise the texts of the threads lie over each other, and the file may
\* hold the whole table or not.
ProcWriteCsv(j) ==
    /\ At_(j, "writing")
    /\ LET name   == thread[j].out_filename
           shared == \/ OUTPUT_FOLDER[name] # csv_df(j, FALSE)
                     \/ \E k \in DOMAIN thread \ {j} :
                           thread[k].pc = "writing" /\ thread[k].out_filename = name
       IN  \/ /\ \E whole \in (IF shared THEN BOOLEAN ELSE {TRUE}) :
                     OUTPUT_FOLDER' = (name :> csv_df(j, whole)) @@ OUTPUT_FOLDER
              /\ thread' = [thread EXCEPT ![j].pc = "report_saved"]
           \/ /\ \E whole \in (IF shared THEN {OUTPUT_FOLDER[name].whole, FALSE}
                                ELSE {OUTPUT_FOLDER[name].whole}) :
                     OUTPUT_FOLDER' = [OUTPUT_FOLDER EXCEPT ![name].whole = whole]
              /\ thread' = [thread EXCEPT ![j].pc = "except"]
    /\ UNCHANGED <<CURRENT_SETTINGS, TASK_QUEUES, TASK_RESULTS, sent, stream, request, settings_at_submit>>

\* Line 182: the line that names the written report.
ProcReportSaved(j) ==
    /\ At_(j, "report_saved")
    /\ Log(j, Line("ReportSaved", <<>>))
    /\ thread' = [thread EXCEPT ![j].pc = "store"]
    /\ UNCHANGED <<CURRENT_SETTINGS, TASK_RESULTS, stream, request, OUTPUT_FOLDER, settings_at_submit>>

\* ProcStore that files the result under a key that is not the task id.
ProcStore_WrongKey(j) ==
    /\ At_(j, "store")
    /\ TASK_RESULTS' = (0 :> [csv |-> thread[j].out_filename, rows |-> <<>>, dates |-> thread[j].unique_dates,
                              all_counts |-> thread[j].date_to_counts]) @@ TASK_RESULTS
    /\ thread' = [thread EXCEPT ![j].pc = "done"]
    /\ UNCHANGED <<CURRENT_SETTINGS, TASK_QUEUES, sent, stream, request, OUTPUT_FOLDER,
                   settings_at_submit>>

\* ProcStore that assigns the registry anew: the results of the other tasks
\* are gone.
ProcStore_Replace(j) ==
    /\ At_(j, "store")
    /\ LET timeline   == thread[j].timeline
           first_date == thread[j].unique_dates[1]
           rows_for_ui == [k \in 1..Len(timeline) |->
                              <<timeline[k], thread[j].final_data.Count[first_date][k]>>]
       IN  TASK_RESULTS' = (j :> [csv |-> thread[j].out_filename,
                                  rows |-> rows_for_ui,
                                  dates |-> thread[j].unique_dates,
                                  all_counts |-> thread[j].date_to_counts])
    /\ thread' = [thread EXCEPT ![j].pc = "done"]
    /\ UNCHANGED <<CURRENT_SETTINGS, TASK_QUEUES, sent, stream, request, OUTPUT_FOLDER,
                   settings_at_submit>>

\* Lines 185-191
ProcStore(j) ==
    /\ At_(j, "store")
    /\ LET timeline   == thread[j].timeline
           first_date == thread[j].unique_dates[1]
           rows_for_ui == [k \in 1..Len(timeline) |->
                              <<timeline[k], thread[j].final_data.Count[first_date][k]>>]
       IN  TASK_RESULTS' = (j :> [csv |-> thread[j].out_filename,
                                  rows |-> rows_for_ui,
                                  dates |-> thread[j].unique_dates,
                                  all_counts |-> thread[j].date_to_counts]) @@ TASK_RESULTS
    /\ thread' = [thread EXCEPT ![j].pc = "done"]
    /\ UNCHANGED <<CURRENT_SETTINGS, TASK_QUEUES, sent, stream, request, OUTPUT_FOLDER, settings_at_submit>>

\* Line 193
ProcDone(j) ==
    /\ At_(j, "done")
    /\ Log(j, DONE)
    /\ thread' = [thread EXCEPT ![j].pc = "finished"]
    /\ UNCHANGED <<CURRENT_SETTINGS, TASK_RESULTS, stream, request, OUTPUT_FOLDER, settings_at_submit>>

\* Lines 194-195
ProcExcept(j) ==
    /\ At_(j, "except")
    /\ Log(j, Line("Unexpected", <<>>))
    /\ thread' = [thread EXCEPT ![j].pc = "failed_except"]
    /\ UNCHANGED <<CURRENT_SETTINGS, TASK_RESULTS, stream, request, OUTPUT_FOLDER, settings_at_submit>>

\* ProcFailed without the return of line 138: after "FAILED" for no valid
\* dates the thread runs on into line 174, which raises.
ProcFailed_NoReturn(j) ==
    /\ j \in DOMAIN thread
    /\ thread[j].pc \in {"failed_read", "failed_columns", "failed_dates", "failed_except"}
    /\ Log(j, FAILED)
    /\ thread' = [thread EXCEPT ![j].pc = IF thread[j].pc = "failed_dates"
                                          THEN "except" ELSE "finished"]
    /\ UNCHANGED <<CURRENT_SETTINGS, TASK_RESULTS, stream, request, OUTPUT_FOLDER,
                   settings_at_submit>>

\* Lines 91-92, 101-102, 137-138 and 196
ProcFailed(j) ==
    /\ j \in DOMAIN thread
    /\ thread[j].pc \in {"failed_read", "failed_columns", "failed_dates", "failed_except"}
    /\ Log(j, FAILED)
    /\ thread' = [thread EXCEPT ![j].pc = "finished"]
    /\ UNCHANGED <<CURRENT_SETTINGS, TASK_RESULTS, stream, request, OUTPUT_FOLDER, settings_at_submit>>

\* One step of the thread of task j.
process_file(j) ==
    \/ ProcStart(j) \/ ProcLoad(j) \/ ProcNormalize(j) \/ ProcCheckColumns(j)
    \/ ProcParse(j) \/ ProcDedupe(j) \/ ProcDates(j) \/ ProcNoDates(j)
    \/ ProcReadTimeline(j) \/ ProcReadAnnotations(j) \/ ProcAnalyze(j)
    \/ ProcCount(j) \/ ProcEndDate(j) \/ ProcSaveCsv(j) \/ ProcWriteCsv(j)
    \/ ProcReportSaved(j)
    \/ ProcStore(j)
    \/ ProcDone(j) \/ ProcExcept(j) \/ ProcFailed(j)

(******************************* /stream ***********************************)

\* Lines 724-726: the generator is made for a known task, 404 otherwise.
StreamOpen(s, j) ==
    /\ stream[s].pc = "idle"
    /\ stream' = [stream EXCEPT ![s] = [pc |-> IF j \in DOMAIN TASK_QUEUES
                                                THEN "waiting" ELSE "notfound",
                                        task |-> j, got |-> <<>>]]
    /\ UNCHANGED <<CURRENT_SETTINGS, TASK_QUEUES, TASK_RESULTS, thread, sent, request, OUTPUT_FOLDER, settings_at_submit>>

\* StreamGet that reads the line a caller has not been given yet and leaves it
\* on the queue for the other callers.
StreamGet_Peek(s) ==
    /\ stream[s].pc \in {"waiting", "timedout"}
    /\ Len(stream[s].got) < Len(sent[stream[s].task])
    /\ LET msg == sent[stream[s].task][Len(stream[s].got) + 1]
       IN  stream' = [stream EXCEPT ![s].got = Append(@, msg),
                                    ![s].pc = IF IsSentinel(msg) THEN "yielded" ELSE "waiting"]
    /\ UNCHANGED <<CURRENT_SETTINGS, TASK_QUEUES, TASK_RESULTS, thread, sent, request,
                   OUTPUT_FOLDER, settings_at_submit>>

\* Lines 731-732: q.get returns a line, which is yielded.  The generator is
\* suspended at the yield; resumed after a line that is no sentinel it is back
\* at q.get (position "waiting"), resumed after a sentinel it is at the break
\* of line 734 (position "yielded").
StreamGet(s) ==
    /\ stream[s].pc \in {"waiting", "timedout"}
    /\ TASK_QUEUES[stream[s].task] # <<>>
    /\ LET msg == Head(TASK_QUEUES[stream[s].task])
       IN  /\ TASK_QUEUES' = [TASK_QUEUES EXCEPT ![stream[s].task] = Tail(@)]
           /\ stream' = [stream EXCEPT ![s].got = Append(@, msg),
                                       ![s].pc = IF IsSentinel(msg) THEN "yielded" ELSE "waiting"]
    /\ UNCHANGED <<CURRENT_SETTINGS, TASK_RESULTS, thread, sent, request, OUTPUT_FOLDER, settings_at_submit>>

\* Lines 733-734: the generator is resumed after it yielded a sentinel and
\* breaks out of its loop.
StreamBreak(s) ==
    /\ stream[s].pc = "yielded"
    /\ stream' = [stream EXCEPT ![s].pc = "ended"]
    /\ UNCHANGED <<CURRENT_SETTINGS, TASK_QUEUES, TASK_RESULTS, thread, sent, request, OUTPUT_FOLDER, settings_at_submit>>

\* StreamTimeout with break in place of continue.
StreamTimeout_Break(s) ==
    /\ stream[s].pc \in {"waiting", "timedout"}
    /\ TASK_QUEUES[stream[s].task] = <<>>
    /\ stream' = [stream EXCEPT ![s].pc = "ended"]
    /\ UNCHANGED <<CURRENT_SETTINGS, TASK_QUEUES, TASK_RESULTS, thread, sent, request,
                   OUTPUT_FOLDER, settings_at_submit>>

\* Lines 735-736: q.get(timeout=0.5) raises Empty and the loop continues.
StreamTimeout(s) ==
    /\ stream[s].pc \in {"waiting", "timedout"}
    /\ TASK_QUEUES[stream[s].task] = <<>>
    /\ stream' = [stream EXCEPT ![s].pc = "timedout"]
    /\ UNCHANGED <<CURRENT_SETTINGS, TASK_QUEUES, TASK_RESULTS, thread, sent, request, OUTPUT_FOLDER, settings_at_submit>>

(******************************* /result ***********************************)

\* The response of /result/<task_id> in the current state.
result(task_id) ==
    IF task_id \notin DOMAIN TASK_RESULTS
    THEN [status |-> 404, rows |-> <<>>, csv |-> "", dates |-> <<>>]
    ELSE [status |-> 200, rows |-> TASK_RESULTS[task_id].rows,
          csv |-> TASK_RESULTS[task_id].csv, dates |-> TASK_RESULTS[task_id].dates]

(**************************** /save_settings *******************************)

\* SaveTimeline that adds the good times to the stored timeline instead of
\* replacing it.
SaveTimeline_Merge(w, payload) ==
    /\ request[w].pc = "idle"
    /\ request' = [request EXCEPT ![w] = [pc |-> "annotations", payload |-> payload]]
    /\ CURRENT_SETTINGS' =
          IF payload.tlIsList
          THEN [CURRENT_SETTINGS EXCEPT
                  !.timeline = Sorted(DictFromKeys(@ \o GoodTimes(payload.tl)))]
          ELSE CURRENT_SETTINGS
    /\ UNCHANGED <<TASK_QUEUES, TASK_RESULTS, thread, sent, stream, OUTPUT_FOLDER,
                   settings_at_submit>>

\* Lines 761-776: the request is read and the timeline replaced if it is a list.
SaveTimeline(w, payload) ==
    /\ request[w].pc = "idle"
    /\ request' = [request EXCEPT ![w] = [pc |-> "annotations", payload |-> payload]]
    /\ CURRENT_SETTINGS' =
          IF payload.tlIsList
          THEN [CURRENT_SETTINGS EXCEPT !.timeline = NewTimeline(payload.tl)]
          ELSE CURRENT_SETTINGS
    /\ UNCHANGED <<TASK_QUEUES, TASK_RESULTS, thread, sent, stream, OUTPUT_FOLDER, settings_at_submit>>

\* Lines 777-789: the annotations replaced if they are a dict; the response.
SaveAnnotations(w) ==
    /\ request[w].pc = "annotations"
    /\ request' = [request EXCEPT ![w] = [pc |-> "idle", payload |-> NoPayload]]
    /\ CURRENT_SETTINGS' =
          IF request[w].payload.annsIsDict
          THEN [CURRENT_SETTINGS EXCEPT !.annotations = GoodAnn(request[w].payload.anns)]
          ELSE CURRENT_SETTINGS
    /\ UNCHANGED <<TASK_QUEUES, TASK_RESULTS, thread, sent, stream, OUTPUT_FOLDER, settings_at_submit>>

(************************** inputs of a run *********************************)

\* read_input_file raises (a corrupt workbook).
TableUnreadable == [readable |-> FALSE, columns |-> <<>>, rows |-> <<>>]

\* Columns "Join Time", "Email": no Leave Time.
TableNoLeave ==
    [readable |-> TRUE,
     columns |-> <<<<74, 111, 105, 110, 32, 84, 105, 109, 101>>, <<69, 109, 97, 105, 108>>>>,
     rows |-> << <<TimeCell(At(1, 9, 0, 0)), TextCell(<<97, 64, 120, 46, 99, 111, 109>>)>> >>]

\* Every row has a cell to_datetime cannot parse.
TableAllBad ==
    [readable |-> TRUE,
     columns |-> <<<<74, 111, 105, 110, 32, 84, 105, 109, 101>>, <<76, 101, 97, 118, 101, 32, 84, 105, 109, 101>>>>,
     rows |-> << <<TimeCell(NaT), TimeCell(At(1, 10, 0, 0))>>,
                 <<TimeCell(At(1, 9, 0, 0)), TimeCell(NaT)>> >>]

\* Columns "Join Time", "join time", "Leave Time": two columns normalize to
\* Join Time.
TableDupColumns ==
    [readable |-> TRUE,
     columns |-> <<<<74, 111, 105, 110, 32, 84, 105, 109, 101>>, <<106, 111, 105, 110, 32, 116, 105, 109, 101>>, <<76, 101, 97, 118, 101, 32, 84, 105, 109, 101>>>>,
     rows |-> << <<TimeCell(At(1, 9, 0, 0)), TimeCell(At(1, 9, 0, 0)), TimeCell(At(1, 10, 0, 0))>> >>]

\* Columns " join time", "LEAVE TIME ", "email"; one day.
\*   0: 09:00:30 - 12:00:00  a@x.com
\*   1: 09:01:00 - 09:15:00  b@x.com
\*   2: 09:10:00 - 10:00:00  " A@X.com "
\*   3: unparsable join
\*   4: 09:00:59 - 09:00:59  (empty e-mail cell)
\*   5: 09:15:00 - 09:15:00  (empty e-mail cell)
TableDay ==
    [readable |-> TRUE,
     columns |-> <<<<32, 106, 111, 105, 110, 32, 116, 105, 109, 101>>, <<76, 69, 65, 86, 69, 32, 84, 73, 77, 69, 32>>, <<101, 109, 97, 105, 108>>>>,
     rows |-> << <<TimeCell(At(1, 9, 0, 30)), TimeCell(At(1, 12, 0, 0)), TextCell(<<97, 64, 120, 46, 99, 111, 109>>)>>,
                 <<TimeCell(At(1, 9, 1, 0)), TimeCell(At(1, 9, 15, 0)), TextCell(<<98, 64, 120, 46, 99, 111, 109>>)>>,
                 <<TimeCell(At(1, 9, 10, 0)), TimeCell(At(1, 10, 0, 0)), TextCell(<<32, 65, 64, 88, 46, 99, 111, 109, 32>>)>>,
                 <<TimeCell(NaT), TimeCell(At(1, 10, 0, 0)), TextCell(<<98, 64, 120, 46, 99, 111, 109>>)>>,
                 <<TimeCell(At(1, 9, 0, 59)), TimeCell(At(1, 9, 0, 59)), NanCell>>,
                 <<TimeCell(At(1, 9, 15, 0)), TimeCell(At(1, 9, 15, 0)), NanCell>> >>]

\* Columns "Join Time", "Leave Time", "full name"; two days.
\*   0: day 1  09:00:00 - 09:20:00  Ann
\*   1: day 2  09:00:00 - 09:30:00  "ann "
\*   2: day 2  09:05:00 - 09:16:00  Bob
\*   3: day 2  09:14:00 - 09:15:30  Ann
TableTwoDays ==
    [readable |-> TRUE,
     columns |-> <<<<74, 111, 105, 110, 32, 84, 105, 109, 101>>, <<76, 101, 97, 118, 101, 32, 84, 105, 109, 101>>, <<102, 117, 108, 108, 32, 110, 97, 109, 101>>>>,
     rows |-> << <<TimeCell(At(1, 9, 0, 0)), TimeCell(At(1, 9, 20, 0)), TextCell(<<65, 110, 110>>)>>,
                 <<TimeCell(At(2, 9, 0, 0)), TimeCell(At(2, 9, 30, 0)), TextCell(<<97, 110, 110, 32>>)>>,
                 <<TimeCell(At(2, 9, 5, 0)), TimeCell(At(2, 9, 16, 0)), TextCell(<<66, 111, 98>>)>>,
                 <<TimeCell(At(2, 9, 14, 0)), TimeCell(At(2, 9, 15, 30)), TextCell(<<65, 110, 110>>)>> >>]

\* Columns "Join Time", "Leave Time" only: the row index is the key.
TableIndex ==
    [readable |-> TRUE,
     columns |-> <<<<74, 111, 105, 110, 32, 84, 105, 109, 101>>, <<76, 101, 97, 118, 101, 32, 84, 105, 109, 101>>>>,
     rows |-> << <<TimeCell(At(1, 9, 0, 0)), TimeCell(At(1, 9, 30, 0))>>,
                 <<TimeCell(At(1, 9, 0, 0)), TimeCell(At(1, 9, 30, 0))>> >>]

\* Columns "Name", "Email", "Join Time", "Leave Time": an e-mail and a name.
\*   0: 09:00:00 - 10:00:00  Ann  a@x.com
\*   1: 09:00:00 - 10:00:00  Ann  b@x.com
TableEmailAndName ==
    [readable |-> TRUE,
     columns |-> <<<<78, 97, 109, 101>>, <<69, 109, 97, 105, 108>>, <<74, 111, 105, 110, 32, 84, 105, 109, 101>>, <<76, 101, 97, 118, 101, 32, 84, 105, 109, 101>>>>,
     rows |-> << <<TextCell(<<65, 110, 110>>), TextCell(<<97, 64, 120, 46, 99, 111, 109>>), TimeCell(At(1, 9, 0, 0)), TimeCell(At(1, 10, 0, 0))>>,
                 <<TextCell(<<65, 110, 110>>), TextCell(<<98, 64, 120, 46, 99, 111, 109>>), TimeCell(At(1, 9, 0, 0)), TimeCell(At(1, 10, 0, 0))>> >>]

\* Columns "Join Time", "Leave Time", "Full Name", "name (original name)": two
\* name columns, the later of the list first in the file.
\*   0: 09:00:00 - 10:00:00  Ann  "ann a"
\*   1: 09:00:00 - 10:00:00  Ann  "ann b"
TableNames ==
    [readable |-> TRUE,
     columns |-> <<<<74, 111, 105, 110, 32, 84, 105, 109, 101>>, <<76, 101, 97, 118, 101, 32, 84, 105, 109, 101>>, <<70, 117, 108, 108, 32, 78, 97, 109, 101>>, <<110, 97, 109, 101, 32, 40, 111, 114, 105, 103, 105, 110, 97, 108, 32, 110, 97, 109, 101, 41>>>>,
     rows |-> << <<TimeCell(At(1, 9, 0, 0)), TimeCell(At(1, 10, 0, 0)), TextCell(<<65, 110, 110>>), TextCell(<<97, 110, 110, 32, 97>>)>>,
                 <<TimeCell(At(1, 9, 0, 0)), TimeCell(At(1, 10, 0, 0)), TextCell(<<65, 110, 110>>), TextCell(<<97, 110, 110, 32, 98>>)>> >>]

\* Columns "Name", "Email", "Join Time", "Leave Time"; two of the three rows
\* have an empty Email cell.
\*   0: 09:00:00 - 10:00:00  Ann  (empty)
\*   1: 09:00:00 - 10:00:00  Bob  (empty)
\*   2: 09:00:00 - 10:00:00  Ann  a@x.com
TableEmptyEmails ==
    [readable |-> TRUE,
     columns |-> <<<<78, 97, 109, 101>>, <<69, 109, 97, 105, 108>>, <<74, 111, 105, 110, 32, 84, 105, 109, 101>>, <<76, 101, 97, 118, 101, 32, 84, 105, 109, 101>>>>,
     rows |-> << <<TextCell(<<65, 110, 110>>), NanCell, TimeCell(At(1, 9, 0, 0)), TimeCell(At(1, 10, 0, 0))>>,
                 <<TextCell(<<66, 111, 98>>), NanCell, TimeCell(At(1, 9, 0, 0)), TimeCell(At(1, 10, 0, 0))>>,
                 <<TextCell(<<65, 110, 110>>), TextCell(<<97, 64, 120, 46, 99, 111, 109>>), TimeCell(At(1, 9, 0, 0)), TimeCell(At(1, 10, 0, 0))>> >>]

\* Columns "Join Time", "Leave Time", " event_date", "Event_Date": the last
\* two are both Event_Date once normalized.
\*   0: 09:00:00 - 10:00:00  x  y
TableDupEventDate ==
    [readable |-> TRUE,
     columns |-> <<<<74, 111, 105, 110, 32, 84, 105, 109, 101>>, <<76, 101, 97, 118, 101, 32, 84, 105, 109, 101>>,
                   <<32, 101, 118, 101, 110, 116, 95, 100, 97, 116, 101>>,
                   <<69, 118, 101, 110, 116, 95, 68, 97, 116, 101>>>>,
     rows |-> << <<TimeCell(At(1, 9, 0, 0)), TimeCell(At(1, 10, 0, 0)), TextCell(<<120>>), TextCell(<<121>>)>> >>]

Tables ==
    {TableUnreadable, TableNoLeave, TableAllBad, TableDupColumns, TableDay,
      TableTwoDays, TableIndex, TableEmailAndName, TableNames, TableEmptyEmails,
      TableDupEventDate}

\* timeline [" 09:15", "09:00", "09:15", "25:61"],
\* annotations {"09:15": " Open ", "25:61": "x"}
PayloadQuarter ==
    [tlIsList |-> TRUE,
     tl |-> <<<<32, 48, 57, 58, 49, 53>>, <<48, 57, 58, 48, 48>>, <<48, 57, 58, 49, 53>>, <<50, 53, 58, 54, 49>>>>,
     annsIsDict |-> TRUE,
     anns |-> << [k |-> <<48, 57, 58, 49, 53>>, v |-> <<32, 79, 112, 101, 110, 32>>, isStr |-> TRUE],
                 [k |-> <<50, 53, 58, 54, 49>>, v |-> <<120>>, isStr |-> TRUE] >>]

\* timeline ["9:00", "09:15"], no annotations key in the payload
PayloadUnpadded ==
    [tlIsList |-> TRUE,
     tl |-> <<<<57, 58, 48, 48>>, <<48, 57, 58, 49, 53>>>>,
     annsIsDict |-> FALSE,
     anns |-> <<>>]

\* timeline [], annotations {}
PayloadEmpty ==
    [tlIsList |-> TRUE, tl |-> <<>>, annsIsDict |-> TRUE, anns |-> <<>>]

\* no timeline key, annotations {"09:00": "  ", "09:15": 5}
PayloadLabels ==
    [tlIsList |-> FALSE,
     tl |-> <<>>,
     annsIsDict |-> TRUE,
     anns |-> << [k |-> <<48, 57, 58, 48, 48>>, v |-> <<32, 32>>, isStr |-> TRUE],
                 [k |-> <<48, 57, 58, 49, 53>>, v |-> <<>>, isStr |-> FALSE] >>]

\* timeline ["08:00"], annotations {"08:00": "Doors"}
PayloadDoors ==
    [tlIsList |-> TRUE,
     tl |-> <<<<48, 56, 58, 48, 48>>>>,
     annsIsDict |-> TRUE,
     anns |-> << [k |-> <<48, 56, 58, 48, 48>>, v |-> <<68, 111, 111, 114, 115>>, isStr |-> TRUE] >>]

Payloads == {PayloadQuarter, PayloadUnpadded, PayloadEmpty, PayloadLabels}

\* The payloads that carry both a timeline list and an annotations dict.
FullPayloads == {PayloadQuarter, PayloadEmpty, PayloadDoors}

(***************************** specifications ******************************)

\* The whole application: uploads, their threads and settings requests run
\* concurrently.
PipelineTables == {TableUnreadable, TableNoLeave, TableAllBad, TableTwoDays}

PipelinePayloads == {PayloadQuarter}

Next ==
    \/ \E j \in Tasks, table \in PipelineTables : UploadRegister(j, table)
    \/ \E j \in Tasks : UploadStart(j)
    \/ \E j \in Tasks : process_file(j)
    \/ \E w \in Writers, payload \in PipelinePayloads : SaveTimeline(w, payload)
    \/ \E w \in Writers : SaveAnnotations(w)

Spec == Init /\ [][Next]_vars

\* The counter on its own: settings are saved, then one file is uploaded and
\* processed under them.
NoUpload == DOMAIN thread = {}

NextCounter ==
    \/ \E table \in Tables : UploadRegister(1, table)
    \/ UploadStart(1)
    \/ process_file(1)
    \/ NoUpload /\ \E w \in Writers, payload \in Payloads : SaveTimeline(w, payload)
    \/ NoUpload /\ \E w \in Writers : SaveAnnotations(w)

SpecCounter == Init /\ [][NextCounter]_vars

\* Uploads and one /stream caller.  The threads of the process are scheduled
\* fairly: a thread that can take a step eventually takes one.
StreamTables == {TableUnreadable, TableNoLeave, TableAllBad, TableDupColumns, TableDay}

NextStream ==
    \/ \E table \in StreamTables : UploadRegister(1, table)
    \/ UploadStart(1)
    \/ process_file(1)
    \/ StreamOpen("s1", 1)
    \/ StreamGet("s1")
    \/ StreamTimeout("s1")
    \/ StreamBreak("s1")

SpecStream ==
    /\ Init /\ [][NextStream]_vars
    /\ WF_vars(UploadStart(1) \/ process_file(1))
    /\ WF_vars(StreamGet("s1") \/ StreamTimeout("s1") \/ StreamBreak("s1"))

\* Settings only: /save_settings requests served at once, one thread each.
NextSettings ==
    \/ \E w \in Requests, payload \in Payloads : SaveTimeline(w, payload)
    \/ \E w \in Requests : SaveAnnotations(w)

SpecSettings == Init /\ [][NextSettings]_vars

\* Settings only, every request carrying a whole configuration.
NextRace ==
    \/ \E w \in Requests, payload \in FullPayloads : SaveTimeline(w, payload)
    \/ \E w \in Requests : SaveAnnotations(w)

SpecRace == Init /\ [][NextRace]_vars

\* Two uploads and a settings request, no /stream caller.  The threads of the
\* uploads are scheduled: while one of them can take a step, one eventually
\* does.  The settings requests may come at any time or never.
NextJobs ==
    \/ \E table \in {TableIndex, TableAllBad} : UploadRegister(1, table)
    \/ UploadRegister(2, TableUnreadable)
    \/ \E j \in {1, 2} : UploadStart(j)
    \/ \E j \in {1, 2} : process_file(j)
    \/ SaveTimeline(1, PayloadQuarter)
    \/ SaveAnnotations(1)

\* Two uploads at once under settings saved before them, each with a file
\* that is counted and stored and a file that fails.
NextTwoJobs ==
    \/ NoUpload /\ SaveTimeline(1, PayloadQuarter)
    \/ NoUpload /\ SaveAnnotations(1)
    \/ \E table \in {TableTwoDays, TableAllBad} : UploadRegister(1, table)
    \/ \E table \in {TableEmptyEmails, TableUnreadable} : UploadRegister(2, table)
    \/ \E j \in {1, 2} : UploadStart(j)
    \/ \E j \in {1, 2} : process_file(j)

SpecTwoJobs == Init /\ [][NextTwoJobs]_vars

SpecJobs ==
    /\ Init /\ [][NextJobs]_vars
    /\ WF_vars(\E j \in {1, 2} : UploadStart(j) \/ process_file(j))

\* One upload with two /stream callers of its task.  A one-point timeline is
\* saved before the upload.
NextSubscribers ==
    \/ NoUpload /\ SaveTimeline(1, PayloadDoors)
    \/ NoUpload /\ SaveAnnotations(1)
    \/ /\ CURRENT_SETTINGS.timeline # DEFAULT_TIMELINE
       /\ request[1].pc = "idle"
       /\ \E table \in {TableAllBad, TableIndex} : UploadRegister(1, table)
    \/ UploadStart(1)
    \/ process_file(1)
    \/ \E s \in Subscribers : StreamOpen(s, 1)
    \/ \E s \in Subscribers : StreamGet(s)
    \/ \E s \in Subscribers : StreamTimeout(s)
    \/ \E s \in Subscribers : StreamBreak(s)

SpecSubscribers == Init /\ [][NextSubscribers]_vars

(******************************* properties ********************************)

\* The thread of task j has just counted point i of its timeline for date d.
Counted(j) == j \in DOMAIN thread /\ thread[j].pc = "count" /\ thread[j].i >= 1

\* The date and the time point of the count just made.
CountedDate(j) == thread[j].unique_dates[thread[j].d]

CountedPoint(j) == thread[j].timeline[thread[j].i]

\* The rows of the counted date with joinTime <= check <= leaveTime.
PresentRows(j) ==
    {k \in 1..Len(thread[j].df) :
        /\ DateOf(thread[j].df[k].join) = CountedDate(j)
        /\ thread[j].df[k].join <= thread[j].check_dt
        /\ thread[j].check_dt <= thread[j].df[k].leave}

\* The sentinels and the lines of one tag among the lines sent for a task.
IsDone(msg) == msg.kind = "DONE"

IsFailed(msg) == msg.kind = "FAILED"

IsCountLine(msg) == msg.kind = "log" /\ msg.tag = "Count"

IsReportSaved(msg) == msg.kind = "log" /\ msg.tag = "ReportSaved"

HasLine(j, Test(_)) == j \in DOMAIN sent /\ \E n \in 1..Len(sent[j]) : Test(sent[j][n])

\* C1: the instant checked for the first element of the timeline is the event
\* date at the point's hour and minute plus 59 seconds; for an element at any
\* other position it is that instant exactly.
C1_BoundaryRule ==
    \A j \in DOMAIN thread :
        Counted(j) =>
            LET hm   == Strptime(CountedPoint(j))
                base == CountedDate(j) * SecondsPerDay + hm[1] * 3600 + hm[2] * 60
            IN  thread[j].check_dt = IF thread[j].i = 1 THEN base + 59 ELSE base

\* With timeline [09:00, 09:15] the row joining at 09:00:30 was counted at
\* 09:00, the row joining at 09:01:00 was not (2 identities with the 09:00:59
\* row), and 09:15 is being checked at 09:15:00.
C1_Witness ==
    \E j \in DOMAIN thread :
        /\ Counted(j)
        /\ thread[j].table = TableDay
        /\ thread[j].timeline = <<HHMM(9, 0), HHMM(9, 15)>>
        /\ thread[j].i = 2
        /\ thread[j].check_dt = At(1, 9, 15, 0)
        /\ thread[j].counts[1] = IntToStr(2)

\* C2: a row of the event date is present at the check instant iff
\* joinTime <= check <= leaveTime, both ends included: the count is zero iff
\* no row is present, and when the present rows have different identities the
\* count is their number.
C2_InclusivePresence ==
    \A j \in DOMAIN thread :
        Counted(j) =>
            /\ (thread[j].count = 0) <=> (PresentRows(j) = {})
            /\ (\A k1, k2 \in PresentRows(j) :
                    k1 # k2 => thread[j].df[k1].clean_email # thread[j].df[k2].clean_email)
               => thread[j].count = Cardinality(PresentRows(j))

\* A row with joinTime = leaveTime = check is among the rows counted.
C2_Witness ==
    \E j \in DOMAIN thread :
        /\ Counted(j)
        /\ \E k \in PresentRows(j) :
              /\ thread[j].df[k].join = thread[j].check_dt
              /\ thread[j].df[k].leave = thread[j].check_dt
        /\ thread[j].count = Cardinality(PresentRows(j))
        /\ thread[j].count = 2

\* C3: the count is the number of distinct identity keys among the present
\* rows: rows with the same key that are all present count once.
C3_DistinctIdentities ==
    \A j \in DOMAIN thread :
        Counted(j) =>
            thread[j].count =
                Cardinality({thread[j].df[k].clean_email : k \in PresentRows(j)})

\* Two present rows have the same key and the count is less than the number of
\* present rows.
C3_Witness ==
    \E j \in DOMAIN thread :
        /\ Counted(j)
        /\ \E k1, k2 \in PresentRows(j) :
              k1 # k2 /\ thread[j].df[k1].clean_email = thread[j].df[k2].clean_email
        /\ thread[j].count < Cardinality(PresentRows(j))
        /\ thread[j].count >= 2

\* The Count lines sent for task j, in order.
CountLines(j) == SelectSeq(sent[j], IsCountLine)

\* The text due at position k of the timeline of task j on a date.
TextDue(j, date, k) ==
    LET t  == thread[j]
        at == CheckDt(t.timeline, t.timeline[k], date)
    IN  CountText(t.annotations, t.timeline[k], CountActive(t.df, date, at))

\* C4: the result of every date has one entry per element of the timeline, the
\* k-th entry being the count of the k-th element; with an empty timeline the
\* result is empty and the job that wrote its report ends with DONE.
C4_OnePerTimePoint ==
    \A j \in DOMAIN thread :
        LET t == thread[j]
        IN  /\ \A date \in DOMAIN t.date_to_counts :
                  /\ Len(t.date_to_counts[date]) = Len(t.timeline)
                  /\ \A k \in 1..Len(t.timeline) :
                        t.date_to_counts[date][k] = TextDue(j, date, k)
            /\ \A n \in 1..Len(CountLines(j)) :
                  CountLines(j)[n].arg[1] = t.timeline[((n - 1) % Len(t.timeline)) + 1]
            /\ j \in DOMAIN TASK_RESULTS =>
                  /\ Len(TASK_RESULTS[j].rows) = Len(t.timeline)
                  /\ \A k \in 1..Len(t.timeline) :
                        /\ TASK_RESULTS[j].rows[k][1] = t.timeline[k]
                        /\ TASK_RESULTS[j].rows[k][2] = TextDue(j, t.unique_dates[1], k)
            /\ (t.pc = "finished" /\ HasLine(j, IsReportSaved) /\ t.timeline = <<>>) =>
                  /\ sent[j][Len(sent[j])] = DONE
                  /\ ~HasLine(j, IsFailed)
                  /\ TASK_RESULTS[j].rows = <<>>

\* A job that read the empty timeline has ended with DONE and an empty result.
C4_Witness ==
    \E j \in DOMAIN thread :
        /\ thread[j].pc = "finished"
        /\ thread[j].timeline = <<>>
        /\ HasLine(j, IsDone)
        /\ j \in DOMAIN TASK_RESULTS
        /\ TASK_RESULTS[j].rows = <<>>
        /\ DOMAIN TASK_RESULTS[j].all_counts = {1, 2}

IsUnexpected(msg) == msg.kind = "log" /\ msg.tag = "Unexpected"

\* C5: the lines sent for a task hold at most one sentinel, which is the last
\* line sent; the thread has ended exactly when the last line is a sentinel.
C5_OneSentinelLast ==
    \A j \in DOMAIN sent :
        /\ \A n \in 1..Len(sent[j]) : IsSentinel(sent[j][n]) => n = Len(sent[j])
        /\ (thread[j].pc = "finished") <=>
              (sent[j] # <<>> /\ IsSentinel(sent[j][Len(sent[j])]))

\* A thread whose report could not be written has ended: its last two lines
\* are the error line and "FAILED", after the Count lines.
C5_Witness ==
    \E j \in DOMAIN sent :
        /\ thread[j].pc = "finished"
        /\ Len(sent[j]) > 2
        /\ IsFailed(sent[j][Len(sent[j])])
        /\ IsUnexpected(sent[j][Len(sent[j]) - 1])
        /\ HasLine(j, IsCountLine)

\* C6 as claimed: /result answers 404 for every task id that is unknown or
\* whose "DONE" has not been sent.
C6_NotFoundUntilDone ==
    \A j \in Tasks :
        (j \notin DOMAIN sent \/ ~HasLine(j, IsDone)) => result(j).status = 404

\* C6, amended: /result answers 404 for every task id that is unknown or whose
\* thread has not reached the store of line 186, which follows the saving of
\* the report; an answer with rows is given only for a thread that has stored
\* its result and sent no "FAILED".
C6_NotFoundUntilStored ==
    \A j \in Tasks :
        /\ (j \notin DOMAIN thread \/ thread[j].pc \notin {"done", "finished"})
              => result(j).status = 404
        /\ result(j).status = 200
              => /\ HasLine(j, IsReportSaved)
                 /\ ~HasLine(j, IsFailed)
                 /\ TASK_RESULTS[j].csv \in DOMAIN OUTPUT_FOLDER

\* The report is saved, the result not yet stored: /result answers 404.
C6_Witness ==
    \E j \in DOMAIN thread :
        /\ thread[j].pc = "store"
        /\ HasLine(j, IsReportSaved)
        /\ result(j).status = 404

\* C8: a task for which "FAILED" was sent has no entry in TASK_RESULTS and
\* /result answers 404 for it, whatever its thread had computed.
C8_NoResultForFailed ==
    \A j \in DOMAIN sent :
        HasLine(j, IsFailed) => j \notin DOMAIN TASK_RESULTS /\ result(j).status = 404

\* A thread failed after it had counted every date: nothing of it is stored.
C8_Witness ==
    \E j \in DOMAIN sent :
        /\ HasLine(j, IsFailed)
        /\ DOMAIN thread[j].date_to_counts = {1, 2}
        /\ result(j).status = 404

\* The thread of task j is past line 141, resp. line 142.
TimelineRead(j) ==
    thread[j].pc \in {"read_annotations", "next_date", "count", "writing", "report_saved", "store", "done"}

AnnotationsRead(j) == thread[j].pc \in {"next_date", "count", "writing", "report_saved", "store", "done"}

\* C10: a settings request made while a job is in flight has no effect on
\* that job: the timeline and annotations a thread works with are those that
\* were stored when its file was submitted.
C10_SettingsOfSubmission ==
    \A j \in DOMAIN settings_at_submit :
        /\ TimelineRead(j) => thread[j].timeline = settings_at_submit[j].timeline
        /\ AnnotationsRead(j) => thread[j].annotations = settings_at_submit[j].annotations

\* The lines a /stream caller has been given hold "DONE".
GotDone(s) == \E n \in 1..Len(stream[s].got) : IsDone(stream[s].got[n])

\* C7: whenever "DONE" has been sent for a task, and so whenever a /stream
\* caller has been given it, /result answers with the rows and dates the
\* thread computed; a stored result never changes.
C7_ResultBeforeDone ==
    /\ [](\A j \in DOMAIN sent :
             HasLine(j, IsDone) =>
                 /\ result(j).status = 200
                 /\ result(j).dates = thread[j].unique_dates
                 /\ Len(result(j).rows) = Len(thread[j].timeline)
                 /\ \A k \in 1..Len(thread[j].timeline) :
                       result(j).rows[k] =
                           <<thread[j].timeline[k],
                             thread[j].date_to_counts[thread[j].unique_dates[1]][k]>>)
    /\ [](\A s \in Subscribers : GotDone(s) => result(stream[s].task).status = 200)
    /\ [][\A j \in DOMAIN TASK_RESULTS :
             j \in DOMAIN TASK_RESULTS' /\ TASK_RESULTS'[j] = TASK_RESULTS[j]]_vars

\* A /stream caller has been given "DONE" and /result answers with 20 rows.
C7_Witness ==
    \E s \in Subscribers :
        /\ GotDone(s)
        /\ result(stream[s].task).status = 200
        /\ Len(result(stream[s].task).rows) = Len(DEFAULT_TIMELINE)

\* C9: a /stream caller of a known task is given the lines in the order they
\* were sent; a sentinel it is given is its last line: from then on it reads
\* nothing, its only step is the one that ends it, and it has ended only after
\* a sentinel; a timeout changes nothing of the thread or the queue and does
\* not end it; scheduled fairly with the thread, it ends.
C9_Subscription ==
    /\ [](\A s \in {"s1"} :
             stream[s].pc \in {"waiting", "timedout", "yielded", "ended"} =>
                 LET got == stream[s].got
                 IN  /\ Len(got) <= Len(sent[stream[s].task])
                     /\ got = SubSeq(sent[stream[s].task], 1, Len(got))
                     /\ \A n \in 1..Len(got) : IsSentinel(got[n]) => n = Len(got)
                     /\ (stream[s].pc \in {"yielded", "ended"}) <=>
                           (got # <<>> /\ IsSentinel(got[Len(got)])))
    /\ [][\A s \in {"s1"} :
             /\ stream[s].pc \in {"yielded", "ended"} =>
                   /\ stream'[s].got = stream[s].got
                   /\ stream'[s].task = stream[s].task
                   /\ stream'[s].pc = "ended" \/ stream'[s] = stream[s]
                   /\ Len(TASK_QUEUES'[stream[s].task]) >= Len(TASK_QUEUES[stream[s].task])
             /\ stream[s].pc = "ended" => stream'[s] = stream[s]
             /\ (stream[s].pc = "waiting" /\ stream'[s].pc = "timedout") =>
                   /\ stream'[s].got = stream[s].got
                   /\ <<thread, sent, TASK_QUEUES, TASK_RESULTS>>' =
                         <<thread, sent, TASK_QUEUES, TASK_RESULTS>>]_vars
    /\ \A s \in {"s1"} : (stream[s].pc = "waiting") ~> (stream[s].pc = "ended")

\* The caller has ended: it was given every line sent, in order, the last one
\* a sentinel, and the queue is empty.
C9_Witness ==
    /\ stream["s1"].pc = "ended"
    /\ Len(stream["s1"].got) > 3
    /\ stream["s1"].got = sent[stream["s1"].task]
    /\ IsSentinel(stream["s1"].got[Len(stream["s1"].got)])
    /\ TASK_QUEUES[stream["s1"].task] = <<>>

(***************************** settings store ******************************)

\* ^([01]\d|2[0-3]):([0-5]\d)$
MatchesHHMM(s) ==
    /\ Len(s) = 5
    /\ \/ s[1] \in {48, 49} /\ IsDigit(s[2])
       \/ s[1] = 50 /\ s[2] \in 48..51
    /\ s[3] = 58
    /\ s[4] \in 48..53
    /\ IsDigit(s[5])

\* The minute of the day a stored time point names.
MinuteOfDay(s) == Strptime(s)[1] * 60 + Strptime(s)[2]

\* C11: every time point of the stored timeline matches the zero-padded
\* 24-hour pattern ^([01]\d|2[0-3]):([0-5]\d)$, whatever was written.
C11_TimelinePattern ==
    \A k \in 1..Len(CURRENT_SETTINGS.timeline) : MatchesHHMM(CURRENT_SETTINGS.timeline[k])

\* The candidates of a timeline that strptime accepts, stripped.
GoodSet(tl) == {Strip(tl[k]) : k \in {n \in 1..Len(tl) : Strptime(Strip(tl[n])) # <<>>}}

\* The items of an annotations dict that save_settings keeps.
KeptItems(anns) ==
    {n \in 1..Len(anns) : /\ Strptime(Strip(anns[n].k)) # <<>>
                          /\ anns[n].isStr
                          /\ anns[n].v # <<>>}

\* tl is exactly the candidates of a request that are accepted: each once, in
\* ascending order of the text, and nothing else.
IsSanitizedTimeline(tl, candidates) ==
    /\ {tl[k] : k \in 1..Len(tl)} = GoodSet(candidates)
    /\ \A a, b \in 1..Len(tl) : a < b => LexLess(tl[a], tl[b])

\* ann is exactly the kept items of a request: the stripped key of each, with
\* the stripped label of the last item of that key, and nothing else.
IsSanitizedAnnotations(ann, candidates) ==
    /\ DOMAIN ann = {Strip(candidates[n].k) : n \in KeptItems(candidates)}
    /\ \A n \in KeptItems(candidates) :
          (\A m \in KeptItems(candidates) :
              Strip(candidates[m].k) = Strip(candidates[n].k) => m <= n)
          => ann[Strip(candidates[n].k)] = Strip(candidates[n].v)

\* The request of w stores its timeline in this step (line 776 is passed).
StoresTimeline(w) == request[w].pc = "idle" /\ request'[w].pc = "annotations"

\* The request of w stores its annotations and returns in this step.
Returns(w) == request[w].pc = "annotations" /\ request'[w].pc = "idle"

\* C12 as stated: when a write returns, the stored timeline and the stored
\* annotations are both the sanitized form of its candidates (of none, if the
\* payload carries none), so nothing of the previous configuration is left.
C12_FullReplace ==
    [][\A w \in Requests :
          Returns(w) =>
             /\ IsSanitizedTimeline(CURRENT_SETTINGS'.timeline, request[w].payload.tl)
             /\ IsSanitizedAnnotations(CURRENT_SETTINGS'.annotations, request[w].payload.anns)]_vars

\* C12: a write replaces each part it is given and leaves the other as it was.
\* A timeline that is a list makes the stored timeline exactly its sanitized
\* form at line 776, an annotations dict makes the stored annotations exactly
\* its sanitized form at line 788, neither merged with the previous value; a
\* part that is absent or of another type is not touched.
C12_ReplacesGivenParts ==
    [][\A w \in Requests :
          /\ StoresTimeline(w) =>
                /\ IF request'[w].payload.tlIsList
                   THEN IsSanitizedTimeline(CURRENT_SETTINGS'.timeline, request'[w].payload.tl)
                   ELSE CURRENT_SETTINGS'.timeline = CURRENT_SETTINGS.timeline
                /\ CURRENT_SETTINGS'.annotations = CURRENT_SETTINGS.annotations
          /\ Returns(w) =>
                /\ IF request[w].payload.annsIsDict
                   THEN IsSanitizedAnnotations(CURRENT_SETTINGS'.annotations,
                                               request[w].payload.anns)
                   ELSE CURRENT_SETTINGS'.annotations = CURRENT_SETTINGS.annotations
                /\ CURRENT_SETTINGS'.timeline = CURRENT_SETTINGS.timeline]_vars

\* A request with timeline [" 09:15", "09:00", "09:15", "25:61"] and
\* annotations {"09:15": " Open ", "25:61": "x"} has returned and the store
\* holds ["09:00", "09:15"] and {"09:15": "Open"}: nothing of the defaults.
C12_Witness ==
    /\ \A w \in Requests : request[w].pc = "idle"
    /\ CURRENT_SETTINGS.timeline = <<<<48, 57, 58, 48, 48>>, <<48, 57, 58, 49, 53>>>>
    /\ CURRENT_SETTINGS.annotations = (<<48, 57, 58, 49, 53>> :> <<79, 112, 101, 110>>)

\* C13: every stored annotation has a key that is a valid HH:MM time point and
\* a label that is not empty after trimming.
C13_AnnotationsValid ==
    \A k \in DOMAIN CURRENT_SETTINGS.annotations :
        /\ MatchesHHMM(k)
        /\ Strip(CURRENT_SETTINGS.annotations[k]) # <<>>

\* C14: the stored timeline has no duplicate, ascends lexicographically, and
\* that order is the chronological order of its time points.
C14_SortedChronological ==
    LET tl == CURRENT_SETTINGS.timeline
    IN  \A a, b \in 1..Len(tl) :
            a < b => /\ tl[a] # tl[b]
                     /\ LexLess(tl[a], tl[b])
                     /\ MinuteOfDay(tl[a]) < MinuteOfDay(tl[b])

\* C15: every request carrying a whole configuration, once the requests that
\* ran at once have all returned the stored pair is the sanitized pair of one
\* request (or still the defaults), never the timeline of one request with the
\* annotations of another.
C15_LastWriteWins ==
    (\A w \in Requests : request[w].pc = "idle") =>
        \/ CURRENT_SETTINGS = [timeline |-> DEFAULT_TIMELINE,
                               annotations |-> DEFAULT_ANNOTATIONS]
        \/ \E payload \in FullPayloads :
              /\ IsSanitizedTimeline(CURRENT_SETTINGS.timeline, payload.tl)
              /\ IsSanitizedAnnotations(CURRENT_SETTINGS.annotations, payload.anns)

(**************************** interval table *******************************)

\* The lines of one tag.
IsUsingLine(msg) ==
    msg.kind = "log" /\ msg.tag \in {"UsingEmail", "UsingFallback", "UsingIndex"}

IsDroppedLine(msg) == msg.kind = "log" /\ msg.tag = "Dropped"

IsMissingColumns(msg) == msg.kind = "log" /\ msg.tag = "MissingColumns"

IsNoValidDates(msg) == msg.kind = "log" /\ msg.tag = "NoValidDates"

IsDatesFound(msg) == msg.kind = "log" /\ msg.tag = "DatesFound"

\* The first line sent for task j that passes Test.
FirstLine(j, Test(_)) == SelectSeq(sent[j], Test)[1]

\* The table of task j has a column of this name, after normalization.
Exists(j, name) == \E c \in 1..Len(thread[j].columns) : thread[j].columns[c] = name

\* The table of task j has two columns that normalize to Event_Date.
TwoEventDates(j) ==
    Cardinality({c \in 1..Len(thread[j].columns) : thread[j].columns[c] = COL_EVENT_DATE}) > 1

\* The cell of a row in the column of this name, lower-cased and trimmed.
KeyFrom(j, row, name) ==
    LET c == CHOOSE c \in 1..Len(thread[j].columns) : thread[j].columns[c] = name
    IN  Strip(Lower(row.cells[c].str))

\* C16: the identity key of every row is the lower-cased trimmed Email if an
\* Email column exists; else that of the first existing column among Name,
\* Name (Original Name), Full Name; else the row's position as a string, which
\* differs from row to row, so every present row counts, and the fallback is a
\* log line after which the job goes on to the event dates of line 131: an
\* error line follows it only after the counting, or in a file that has two
\* Event_Date columns, where line 132 raises.
C16_KeyPrecedence ==
    \A j \in DOMAIN thread :
        HasLine(j, IsUsingLine) =>
            LET df       == thread[j].df
                line     == FirstLine(j, IsUsingLine)
                Email    == <<69, 109, 97, 105, 108>>
                Name     == <<78, 97, 109, 101>>
                Original == <<78, 97, 109, 101, 32, 40, 79, 114, 105, 103, 105, 110, 97,
                              108, 32, 78, 97, 109, 101, 41>>
                FullName == <<70, 117, 108, 108, 32, 78, 97, 109, 101>>
                from     == IF Exists(j, Email) THEN Email
                            ELSE IF Exists(j, Name) THEN Name
                            ELSE IF Exists(j, Original) THEN Original
                            ELSE IF Exists(j, FullName) THEN FullName
                            ELSE <<>>
            IN  IF from # <<>>
                THEN /\ \A k \in 1..Len(df) : df[k].clean_email = KeyFrom(j, df[k], from)
                     /\ line.tag = IF from = Email THEN "UsingEmail" ELSE "UsingFallback"
                     /\ line.arg = <<from>>
                ELSE /\ \A k \in 1..Len(df) : df[k].clean_email = IntToStr(df[k].idx)
                     /\ \A k1, k2 \in 1..Len(df) :
                           k1 # k2 => df[k1].clean_email # df[k2].clean_email
                     /\ Counted(j) => thread[j].count = Cardinality(PresentRows(j))
                     /\ line.tag = "UsingIndex"
                     /\ sent[j][Len(sent[j])] = line =>
                           \/ thread[j].pc = "dates"
                           \/ thread[j].pc = "except" /\ TwoEventDates(j)
                     /\ HasLine(j, IsUnexpected) =>
                           thread[j].date_to_counts # <<>> \/ TwoEventDates(j)

\* In a table with Full Name before Name (Original Name), whose two rows have
\* one full name and two original names, the original name is the key: two
\* attendees are counted.
C16_Witness ==
    \E j \in DOMAIN thread :
        /\ Counted(j)
        /\ thread[j].table = TableNames
        /\ FirstLine(j, IsUsingLine).arg = <<FALLBACK_COLS[2]>>
        /\ thread[j].count = 2

\* The rows of the file of task j whose Join Time and Leave Time both parse.
Survivors(j) ==
    LET cols == thread[j].columns
        jc   == CHOOSE c \in 1..Len(cols) : cols[c] = COL_JOIN
        lc   == CHOOSE c \in 1..Len(cols) : cols[c] = COL_LEAVE
        rows == thread[j].table.rows
    IN  {n \in 1..Len(rows) : rows[n][jc].ts # NaT /\ rows[n][lc].ts # NaT}

\* C17: after parsing, the rows kept are exactly the rows of the file whose
\* Join Time and Leave Time both parse, in file order, so no other row is ever
\* counted; the number on the "Dropped" line is the rows of the file minus the
\* rows kept; the event dates are the calendar dates of the joinTime of the
\* rows kept, and a count is of rows kept whose joinTime is on the date.
C17_UnparsedExcluded ==
    \A j \in DOMAIN thread :
        HasLine(j, IsDroppedLine) =>
            LET df   == thread[j].df
                rows == thread[j].table.rows
            IN  /\ {df[k].idx + 1 : k \in 1..Len(df)} = Survivors(j)
                /\ \A k1, k2 \in 1..Len(df) : k1 < k2 => df[k1].idx < df[k2].idx
                /\ \A k \in 1..Len(df) : df[k].join # NaT /\ df[k].leave # NaT
                /\ FirstLine(j, IsDroppedLine).arg
                      = <<IntToStr(Len(rows) - Cardinality(Survivors(j)))>>
                /\ HasLine(j, IsDatesFound) =>
                      {thread[j].unique_dates[d] : d \in 1..Len(thread[j].unique_dates)}
                         = {df[k].join \div SecondsPerDay : k \in 1..Len(df)}
                /\ Counted(j) =>
                      thread[j].count <=
                         Cardinality({n \in Survivors(j) :
                            \E k \in 1..Len(df) :
                               /\ df[k].idx + 1 = n
                               /\ df[k].join \div SecondsPerDay = CountedDate(j)})

\* One row of six was dropped, the line says 1, and the five others of the day
\* are being counted.
C17_Witness ==
    \E j \in DOMAIN thread :
        /\ Counted(j)
        /\ thread[j].table = TableDay
        /\ Len(thread[j].df) = 5
        /\ FirstLine(j, IsDroppedLine).arg = <<IntToStr(1)>>
        /\ thread[j].count >= 2

\* The headers of the file of task j, trimmed and in title case, lack Join
\* Time or Leave Time.
LacksSchema(j) ==
    LET headers == {Title(Strip(thread[j].table.columns[c])) :
                       c \in 1..Len(thread[j].table.columns)}
    IN  COL_JOIN \notin headers \/ COL_LEAVE \notin headers

\* C18: a readable table that lacks Join Time or Leave Time after its headers
\* are normalized gets the error line and then "FAILED" and nothing else: no
\* parsing, no count, no report, no result, no second run; a table that has
\* both never gets that error line.
C18_SchemaFailureFatal ==
    \A j \in DOMAIN thread :
        (thread[j].table.readable /\ Len(sent[j]) >= 4) =>
            IF LacksSchema(j)
            THEN /\ Len(sent[j]) <= 5
                 /\ sent[j] = SubSeq(<<Line("Processing", <<>>), Line("FileLoaded", <<>>),
                                       Line("ColumnsNormalized", <<>>),
                                       Line("MissingColumns", <<>>), FAILED>>,
                                     1, Len(sent[j]))
                 /\ thread[j].pc = IF Len(sent[j]) = 4 THEN "failed_columns" ELSE "finished"
                 /\ thread[j].df = <<>>
                 /\ thread[j].date_to_counts = <<>>
                 /\ j \notin DOMAIN TASK_RESULTS
                 /\ thread[j].out_filename = 0 /\ OUTPUT_FOLDER = <<>>
            ELSE ~HasLine(j, IsMissingColumns)

\* The job of the table without Leave Time has ended with the error line and
\* "FAILED".
C18_Witness ==
    \E j \in DOMAIN thread :
        /\ thread[j].table = TableNoLeave
        /\ thread[j].pc = "finished"
        /\ Len(sent[j]) = 5
        /\ IsMissingColumns(sent[j][4])
        /\ IsFailed(sent[j][5])
        /\ result(j).status = 404

\* C19: a job none of whose rows survives parsing has no event date and ends
\* with "FAILED": it never reads the settings, counts nothing, writes no
\* report and stores no result.
C19_NoRowsFatal ==
    \A j \in DOMAIN thread :
        (HasLine(j, IsDatesFound) /\ thread[j].df = <<>>) =>
            /\ thread[j].unique_dates = <<>>
            /\ thread[j].pc \in {"check_dates", "failed_dates", "finished"}
            /\ thread[j].timeline = <<>> /\ thread[j].annotations = <<>>
            /\ thread[j].date_to_counts = <<>>
            /\ ~HasLine(j, IsCountLine)
            /\ thread[j].out_filename = 0 /\ OUTPUT_FOLDER = <<>>
            /\ j \notin DOMAIN TASK_RESULTS
            /\ thread[j].pc = "failed_dates" => IsNoValidDates(sent[j][Len(sent[j])])
            /\ thread[j].pc = "finished" =>
                  /\ IsFailed(sent[j][Len(sent[j])])
                  /\ IsNoValidDates(sent[j][Len(sent[j]) - 1])

\* The job of the table whose rows all fail to parse has dropped its two rows
\* and ended with "FAILED" while a timeline is stored.
C19_Witness ==
    \E j \in DOMAIN thread :
        /\ thread[j].table = TableAllBad
        /\ thread[j].pc = "finished"
        /\ FirstLine(j, IsDroppedLine).arg = <<IntToStr(2)>>
        /\ IsFailed(sent[j][Len(sent[j])])
        /\ CURRENT_SETTINGS.timeline # <<>>
        /\ thread[j].timeline = <<>>

\* The number a display value starts with: its digits up to the first space.
NumberShown(text) ==
    LET spaces == {n \in 1..Len(text) : text[n] = 32}
        end    == IF spaces = {} THEN Len(text)
                  ELSE (CHOOSE n \in spaces : \A m \in spaces : n <= m) - 1
    IN  DigitsValue(SubSeq(text, 1, end))

\* C20: the number shown at a time point is the number of distinct keys of
\* the rows present, which the rows, the date and the timeline decide: it is
\* the same under every annotation map, the empty one included.  The display
\* value is "<count> (<L>)" when the time point is an annotation key with
\* label L and the plain count otherwise.
C20_OverlayDisplayOnly ==
    \A j \in DOMAIN thread :
        Counted(j) =>
            LET text  == thread[j].counts[thread[j].i]
                point == CountedPoint(j)
                n     == Cardinality({thread[j].df[k].clean_email : k \in PresentRows(j)})
            IN  /\ NumberShown(text) = n
                /\ text = IF point \in DOMAIN thread[j].annotations
                          THEN IntToStr(n) \o <<32, 40>> \o thread[j].annotations[point]
                                  \o <<41>>
                          ELSE IntToStr(n)
                /\ sent[j][Len(sent[j])] = Line("Count", <<point, text>>)

\* Under the annotations {"09:15": "Open"} the three attendees present at
\* 09:15 are shown as "3 (Open)", after a plain "2" at 09:00.
C20_Witness ==
    \E j \in DOMAIN thread :
        /\ Counted(j)
        /\ thread[j].table = TableDay
        /\ thread[j].annotations = (<<48, 57, 58, 49, 53>> :> <<79, 112, 101, 110>>)
        /\ thread[j].counts = <<<<50>>, <<51, 32, 40, 79, 112, 101, 110, 41>>>>

(****************************** job lifecycle ******************************)

\* The thread of task j has sent its sentinel.
Ended(j) == sent[j] # <<>> /\ IsSentinel(sent[j][Len(sent[j])])

\* C21: every upload that has registered its queue leads to its thread
\* sending "DONE" or "FAILED", given only that the threads are scheduled:
\* with no /stream caller, so with every line sent still on the queue, and
\* with another upload and settings requests running.
C21_JobsEnd ==
    \A j \in {1, 2} : (j \in DOMAIN thread) ~> (j \in DOMAIN thread /\ Ended(j))

\* Both threads have ended, one with "DONE" and one with "FAILED", no /stream
\* caller was ever there and every line sent is still on its queue.
C21_Witness ==
    /\ DOMAIN thread = {1, 2}
    /\ Ended(1) /\ Ended(2)
    /\ HasLine(1, IsDone) /\ HasLine(2, IsFailed)
    /\ \A s \in Subscribers : stream[s].pc = "idle"
    /\ TASK_QUEUES = sent
    /\ Len(TASK_QUEUES[1]) > 20

\* The event dates among the rows of task j that were kept.
EventDates(j) == {thread[j].df[k].join \div SecondsPerDay : k \in 1..Len(thread[j].df)}

\* C22: the stored result of a job with several event dates holds one
\* sequence of counts, as long as the timeline, for every event date found;
\* its rows and the report it names pair the timeline, element by element,
\* with the sequence of the job's earliest date and hold no other date.
C22_AllDatesFirstShown ==
    \A j \in {k \in DOMAIN TASK_RESULTS : Cardinality(EventDates(k)) > 1} :
        LET res      == TASK_RESULTS[j]
            timeline == thread[j].timeline
            first    == CHOOSE d \in EventDates(j) : \A e \in EventDates(j) : d <= e
        IN  /\ DOMAIN res.all_counts = EventDates(j)
            /\ \A d \in EventDates(j) : Len(res.all_counts[d]) = Len(timeline)
            /\ {res.dates[n] : n \in 1..Len(res.dates)} = EventDates(j)
            /\ res.dates[1] = first
            /\ Len(res.rows) = Len(timeline)
            /\ \A k \in 1..Len(timeline) :
                  res.rows[k] = <<timeline[k], res.all_counts[first][k]>>
            /\ res.csv \in DOMAIN OUTPUT_FOLDER
            /\ OUTPUT_FOLDER[res.csv] =
                  [Time |-> timeline, date |-> first, Count |-> res.all_counts[first],
                   whole |-> TRUE]

\* The number of push_log calls the thread of task j has made when it is at
\* a position before the loop over the dates.
Pushed(j) ==
    LET pc == thread[j].pc
    IN  IF pc \in {"new", "start"} THEN 0
        ELSE IF pc = "load" THEN 1
        ELSE IF pc \in {"normalize", "failed_read"} THEN 2
        ELSE IF pc = "check_columns" THEN 3
        ELSE IF pc \in {"parse", "failed_columns"} THEN 4
        ELSE IF pc = "dedupe" THEN 5
        ELSE IF pc = "dates" THEN 6
        ELSE IF pc = "check_dates" THEN 7
        ELSE IF pc = "failed_dates" THEN 8
        ELSE 0 - 1

\* The result line 186 stores for task j, from the locals of its own thread.
OwnResult(j) ==
    LET t == thread[j]
    IN  [csv |-> t.out_filename,
         rows |-> [k \in 1..Len(t.timeline) |->
                      <<t.timeline[k], t.date_to_counts[t.unique_dates[1]][k]>>],
         dates |-> t.unique_dates,
         all_counts |-> t.date_to_counts]

\* C23: an upload takes a task id no other upload has, and its queue is
\* registered before its thread starts, while the thread has not run a line
\* when /upload returns; so every line the thread pushes is on its queue (none
\* is dropped) and on no other; a stored result is the one computed by the
\* thread of its own task id, and once stored it is never changed or removed,
\* whatever the other jobs store; a step of one thread leaves the queue and
\* the locals of every other task as they were.
C23_FreshIdOwnChannel ==
    /\ [](\A j \in DOMAIN thread :
             /\ j \in DOMAIN TASK_QUEUES
             /\ TASK_QUEUES[j] = sent[j]
             /\ Pushed(j) >= 0 => Len(TASK_QUEUES[j]) = Pushed(j)
             /\ j \in DOMAIN TASK_RESULTS => TASK_RESULTS[j] = OwnResult(j))
    /\ [](DOMAIN TASK_RESULTS \subseteq DOMAIN thread)
    /\ [][/\ \A j \in DOMAIN TASK_QUEUES' \ DOMAIN TASK_QUEUES :
                /\ j \notin DOMAIN thread /\ j \notin DOMAIN TASK_RESULTS
                /\ thread'[j].pc = "new"
                /\ TASK_QUEUES'[j] = <<>>
          /\ \A k \in DOMAIN TASK_QUEUES :
                k \in DOMAIN TASK_QUEUES' /\ Len(TASK_QUEUES'[k]) >= Len(TASK_QUEUES[k])
          /\ \A k \in DOMAIN TASK_RESULTS :
                k \in DOMAIN TASK_RESULTS' /\ TASK_RESULTS'[k] = TASK_RESULTS[k]
          /\ \A j, k \in DOMAIN thread :
                (j # k /\ thread'[j] # thread[j]) =>
                    /\ TASK_QUEUES'[k] = TASK_QUEUES[k]
                    /\ thread'[k] = thread[k]
                    /\ (k \in DOMAIN TASK_RESULTS') = (k \in DOMAIN TASK_RESULTS)]_vars

\* Two uploads at once, both counted: each has sent "DONE" with all its lines
\* on its own queue, and the two results, stored one after the other, are both
\* there, each the one its own thread computed.
C23_Witness ==
    /\ DOMAIN thread = {1, 2}
    /\ DOMAIN TASK_RESULTS = {1, 2}
    /\ HasLine(1, IsDone) /\ HasLine(2, IsDone)
    /\ thread[1].table = TableTwoDays /\ thread[2].table = TableEmptyEmails
    /\ TASK_RESULTS[1] = OwnResult(1) /\ TASK_RESULTS[2] = OwnResult(2)
    /\ TASK_RESULTS[1] # TASK_RESULTS[2]
    /\ TASK_QUEUES[1] = sent[1] /\ TASK_QUEUES[2] = sent[2]

(*************************** settings snapshot *****************************)

\* Every pair the store can hold at a moment of a run in which the requests
\* carry these payloads, each with a timeline list and an annotations dict:
\* the defaults, or the timeline of a request with the default annotations or
\* with the annotations of a request.  A request replaces the timeline first,
\* so the default timeline is never stored with other annotations.
StorablePairs(payloads) ==
    {[timeline |-> DEFAULT_TIMELINE, annotations |-> DEFAULT_ANNOTATIONS]}
    \cup {[timeline |-> NewTimeline(p.tl), annotations |-> a] :
             p \in payloads,
             a \in {DEFAULT_ANNOTATIONS} \cup {GoodAnn(q.anns) : q \in payloads}}

\* C24: the timeline and the annotations a job works with were, as a pair,
\* what the store held at one moment.
C24_ConsistentSnapshot ==
    \A j \in DOMAIN thread :
        AnnotationsRead(j) =>
            [timeline |-> thread[j].timeline, annotations |-> thread[j].annotations]
                \in StorablePairs(PipelinePayloads)

(***************************** subscriptions *******************************)

\* The lines a /stream caller has been given hold a sentinel.
GotSentinel(s) == \E n \in 1..Len(stream[s].got) : IsSentinel(stream[s].got[n])

\* The /stream caller s is in its loop on the queue of task j.
Listening(s, j) == stream[s].task = j /\ stream[s].pc \in {"waiting", "timedout"}

\* The positions in sent[j] of the lines s has been given.
GivenTo(s, j) ==
    {n \in 1..Len(sent[j]) : \E m \in 1..Len(stream[s].got) : stream[s].got[m] = sent[j][n]}

\* C25: a line is given to at most one /stream caller of the task, each caller
\* getting its lines in the order sent; a line stays on the queue until a
\* caller takes it, however late the first caller comes; the sentinel is given
\* to at most one caller, and once it has been given a caller that is or comes
\* in its loop is given no line and does not end.
C25_ConsumedOnDelivery ==
    /\ [](\A j \in DOMAIN sent :
             LET subs  == {s \in Subscribers : stream[s].task = j /\ stream[s].pc # "notfound"}
                 taken == Len(sent[j]) - Len(TASK_QUEUES[j])
             IN  /\ \A n, m \in 1..Len(sent[j]) : n # m => sent[j][n] # sent[j][m]
                 /\ TASK_QUEUES[j] = SubSeq(sent[j], taken + 1, Len(sent[j]))
                 /\ \A s, t \in subs : s # t => GivenTo(s, j) \cap GivenTo(t, j) = {}
                 /\ UNION {GivenTo(s, j) : s \in subs} = 1..taken
                 /\ \A s \in subs :
                       /\ Cardinality(GivenTo(s, j)) = Len(stream[s].got)
                       /\ \A a, b \in 1..Len(stream[s].got) :
                             a < b => \E n, m \in 1..taken :
                                         /\ n < m
                                         /\ sent[j][n] = stream[s].got[a]
                                         /\ sent[j][m] = stream[s].got[b]
                 /\ Cardinality({s \in subs : GotSentinel(s)}) <= 1)
    /\ [][\A s, t \in Subscribers :
             (s # t /\ stream[t].task = 1 /\ GotSentinel(t)) =>
                 /\ Listening(s, 1) =>
                       Listening(s, 1)' /\ stream'[s].got = stream[s].got
                 /\ (stream[s].pc = "idle" /\ stream'[s].pc # "idle") =>
                       Listening(s, 1)' /\ stream'[s].got = <<>>]_vars

\* The thread ran to "DONE" before any caller came; the first caller was then
\* given lines, the second the rest with "DONE", and the first, given no
\* sentinel, is still in its loop on the empty queue.
C25_Witness ==
    /\ HasLine(1, IsDone)
    /\ stream["s2"].pc = "ended"
    /\ stream["s1"].pc = "timedout"
    /\ Len(stream["s1"].got) >= 2
    /\ stream["s1"].got[1] = sent[1][1]
    /\ Len(stream["s2"].got) >= 2
    /\ TASK_QUEUES[1] = <<>>

(****************************** empty e-mail *******************************)

\* The Email cell of a row of task j, and whether it is empty in the file.
EmailCell(j, k) ==
    thread[j].df[k].cells[CHOOSE c \in 1..Len(thread[j].columns) :
                              thread[j].columns[c] = COL_EMAIL]

EmptyEmail(j, k) == EmailCell(j, k) = NanCell

\* C26: with an Email column the key of a row comes from its Email cell alone:
\* two rows with the same Email cell have the same key whatever their names,
\* the rows with an empty Email cell all have one key, and together they add
\* at most 1 to the count at a time point.
C26_EmailOnly ==
    \A j \in DOMAIN thread :
        (HasLine(j, IsUsingLine) /\ Exists(j, COL_EMAIL)) =>
            LET df == thread[j].df
            IN  /\ \A k1, k2 \in 1..Len(df) :
                      /\ EmailCell(j, k1) = EmailCell(j, k2) =>
                            df[k1].clean_email = df[k2].clean_email
                      /\ (EmptyEmail(j, k1) /\ EmptyEmail(j, k2)) =>
                            df[k1].clean_email = df[k2].clean_email
                /\ Counted(j) =>
                      LET empties == {k \in PresentRows(j) : EmptyEmail(j, k)}
                          others  == {df[k].clean_email : k \in PresentRows(j) \ empties}
                      IN  thread[j].count <=
                             Cardinality(others) + (IF empties = {} THEN 0 ELSE 1)

\* Ann and Bob, both with an empty Email cell, and Ann with a@x.com are
\* present: 2 attendees are counted, not 3 and not, by names, 2 others.
C26_Witness ==
    \E j \in DOMAIN thread :
        /\ Counted(j)
        /\ thread[j].table = TableEmptyEmails
        /\ Cardinality(PresentRows(j)) = 3
        /\ Cardinality({k \in PresentRows(j) : EmptyEmail(j, k)}) = 2
        /\ thread[j].count = 2

====
